---- MODULE Spec2Model ----
(***************************************************************************)
(* Labdisc Bridge: the Logger session (LabdiscConnection), the             *)
(* orchestrator (Bridge) and the Beacon link (MicrobitBLE) as one state    *)
(* machine.  JavaScript runs one macrotask at a time: an action is one     *)
(* macrotask (a user call, a timer, an I/O completion, incoming bytes)     *)
(* run to the next suspension of every async function it resumes.          *)
(* The transports are byte-in/byte-out services: a write or an open is a   *)
(* suspension that later confirms or fails.                                *)
(***************************************************************************)
EXTENDS Integers, Sequences, FiniteSets, Bags, TLC

\* ---- bounds of the model ----
MaxTasks == 2        \* async calls of the session in flight at once
MaxLoops == 2        \* read loops alive at once
MaxOps == 5          \* user calls, incoming packets and transport faults in a run
MaxFairOps == 4      \* the same, in the runs checked for progress
JunkPairs == 50      \* header pairs without a packet at the head of a byte stream
BadPackets == 31     \* packets with a wrong checksum at the head of a byte stream

\* ---- protocol constants (protocol.js) ----
CMD_GET_SENSOR_STATUS == 16
CMD_START_EXPERIMENT == 17
CMD_START_LOGIN == 34
CMD_STOP_LOGIN == 51
CMD_GET_SENSOR_IDS == 170
SUB_GET_STATUS == 16
SUB_STOP_LOGIN_ACK == 51
RSP_ONLINE_DATA == 129
RSP_SENSOR_IDS == 130
RSP_DEVICE_STATUS == 131
RSP_EXPERIMENT_DATA == 132
RSP_CONFIG == 133
LEN_SENSOR_IDS == 21
LEN_DEVICE_STATUS == 33

\* ---- constants of the framing loop (parser.js) ----
HDR_0 == 46          \* 0x2E
HDR_1 == 105         \* 0x69
MIN_FRAME == 4
MAX_FRAME == 800
SAFETY_CAP == 50
PRUNE_OVER == 200
RESYNC_AFTER == 30
RESYNC_DROP == 10

DISCONNECTED == "disconnected"
CONNECTING == "connecting"
CONNECTED == "connected"
STREAMING == "streaming"
ConnectionState == {DISCONNECTED, CONNECTING, CONNECTED, STREAMING}
BleState == {DISCONNECTED, CONNECTING, CONNECTED}
Modes == {"normal", "fast"}

\* sensor-id lists a 0x82 packet may carry, and status subtypes of a 0x83 packet
IdLists == {<<30, 7>>}
StatusSubs == {SUB_GET_STATUS, SUB_STOP_LOGIN_ACK}

VARIABLES
  state,        \* LabdiscConnection.state
  port,         \* LabdiscConnection.port: 0 is null
  reader,       \* LabdiscConnection.reader is non-null
  loops,        \* _readLoop calls suspended in reader.read()
  txBroken,     \* port.writable is errored, its lock never released
  streamMode,   \* LabdiscConnection.streamMode
  deviceStatus, \* LabdiscConnection.deviceStatus: subtype, 0 is null
  sensorIds,    \* LabdiscParser.sensorIds
  mbState,      \* MicrobitBLE.state
  mbPending,    \* a MicrobitBLE.connect() call is in flight
  mode,         \* Bridge.mode
  autoStarted,  \* Bridge._autoStarted
  tasks,        \* the session's async calls in flight: a bag of suspended calls
  ops,          \* user calls, incoming packets and faults so far
  logs,         \* history: the log lines of the last action
  trans,        \* history: the state changes <<from, to>> of the last action
  fin,          \* history: the start and stop calls the last action completed
  mixed,        \* history: the last action wrote into another call's sequence
  manual,       \* history: a stream started by manualStartStream is alive
  displayValues, \* Bridge.displayValues
  lastUartLine, \* Bridge.lastUartLine
  uartSentCount, \* Bridge.uartSentCount
  txLines,      \* history: the lines the last action handed to MicrobitBLE.send
  sample,       \* history: the sample event the last action handled, if any
  gatt,         \* the writeValue calls of MicrobitBLE.send in flight, in issue order
  wire,         \* history: the writeValue calls that ended, and how
  lines,        \* history: the lines handed to MicrobitBLE.send, in order
  buffer,       \* LabdiscParser.buffer
  packetCount,  \* LabdiscParser.packetCount
  stream,       \* the bytes the transport delivers to a parser under test
  fed,          \* how many of them feed() has taken
  events,       \* history: the events the parser emitted, in order
  warns,        \* history: the 'warn' lines the parser logged so far
  discarded,    \* history: the bytes the parser threw away so far
  turns,        \* history: the iterations of the last feed()'s framing loop
  arg,          \* a call of a function under test: its name and arguments
  res           \* what that call returned, once it has returned

parserVars == <<buffer, packetCount, stream, fed, events, warns, discarded, turns>>

callVars == <<arg, res>>

sessionVars == <<state, port, reader, loops, txBroken, streamMode, deviceStatus,
                 sensorIds, mbState, mbPending, mode, autoStarted, tasks, ops, logs,
                 trans, fin, mixed, manual, displayValues, lastUartLine,
                 uartSentCount, txLines, sample, gatt, wire, lines>>

\* no function call under test
NoCall == [fn |-> "-"]
NoRes == [done |-> FALSE]
Returned(v) == [done |-> TRUE, val |-> v]

vars == <<state, port, reader, loops, txBroken, streamMode, deviceStatus, sensorIds,
          mbState, mbPending, mode, autoStarted, tasks, ops, logs, trans, fin,
          mixed, manual, displayValues, lastUartLine, uartSentCount, txLines,
          sample, gatt, wire, lines, buffer, packetCount, stream, fed, events, warns, discarded,
          turns, arg, res>>

\* buildMaskForRate(ids, rate): bit i is set unless the sensor at position i
\* cannot be sampled at the rate; GPS is limited to 1 Hz
buildMaskForRate(ids, rate) ==
  LET bit(i) == IF ids[i] = 7 /\ rate > 1 THEN 0 ELSE 2 ^ (i - 1)
      sum[i \in 0..Len(ids)] == IF i = 0 THEN 0 ELSE sum[i - 1] + bit(i)
  IN sum[Len(ids)]

\* the mask startNormal / startFast computes from the cached list
MaskOf(m, ids) ==
  IF m = "normal" THEN 2 ^ Len(ids) - 1 ELSE buildMaskForRate(ids, 10)

\* a suspended async call: where it waits (pc, and k: the command of its
\* sequence it is at), and history: who called it (origin), the commands the
\* transport took from it (sent), whether another call wrote after its first
\* command (cut), for a restart the mode streamed before the completion, and
\* for a start the local constant mask of startNormal / startFast
Task(kind, pc, k, m, org, em) ==
  [kind |-> kind, pc |-> pc, k |-> k, mode |-> m, origin |-> org,
   sent |-> <<>>, cut |-> FALSE, endMode |-> em, mask |-> 0]

\* the five commands of a start procedure, in program order
StartSeq == <<CMD_STOP_LOGIN, CMD_GET_SENSOR_IDS, CMD_GET_SENSOR_STATUS,
              CMD_START_EXPERIMENT, CMD_START_LOGIN>>
\* the two commands of connect()'s initial handshake
ConnectSeq == <<CMD_GET_SENSOR_IDS, CMD_GET_SENSOR_STATUS>>

\* ---- the program state as one record, threaded through a macrotask ----
Cur == [state |-> state, port |-> port, reader |-> reader, loops |-> loops,
        txBroken |-> txBroken,
        streamMode |-> streamMode, deviceStatus |-> deviceStatus,
        sensorIds |-> sensorIds, mbState |-> mbState, mbPending |-> mbPending,
        mode |-> mode, autoStarted |-> autoStarted, tasks |-> tasks,
        ops |-> ops, logs |-> logs, trans |-> trans, fin |-> fin,
        mixed |-> mixed, manual |-> manual, displayValues |-> displayValues,
        lastUartLine |-> lastUartLine, uartSentCount |-> uartSentCount,
        txLines |-> txLines, sample |-> sample,
        gatt |-> gatt, wire |-> wire, lines |-> lines, ok |-> TRUE]

Begin == [Cur EXCEPT !.logs = {}, !.trans = {}, !.fin = {}, !.mixed = FALSE,
                     !.txLines = <<>>, !.sample = [got |-> FALSE]]

\* an action the environment starts: counted against MaxOps
BeginOp == [Begin EXCEPT !.ops = @ + 1]

Commit(S) ==
  /\ S.ok
  /\ S.ops <= MaxOps
  /\ state' = S.state /\ port' = S.port /\ reader' = S.reader /\ loops' = S.loops
  /\ txBroken' = S.txBroken
  /\ streamMode' = S.streamMode /\ deviceStatus' = S.deviceStatus
  /\ sensorIds' = S.sensorIds /\ mbState' = S.mbState /\ mbPending' = S.mbPending
  /\ mode' = S.mode /\ autoStarted' = S.autoStarted /\ tasks' = S.tasks
  /\ ops' = S.ops /\ logs' = S.logs /\ trans' = S.trans /\ fin' = S.fin
  /\ mixed' = S.mixed /\ manual' = S.manual
  /\ displayValues' = S.displayValues /\ lastUartLine' = S.lastUartLine
  /\ uartSentCount' = S.uartSentCount /\ txLines' = S.txLines
  /\ sample' = S.sample
  /\ gatt' = S.gatt /\ wire' = S.wire /\ lines' = S.lines
  /\ UNCHANGED <<parserVars, callVars>>

Log(S, l) == [S EXCEPT !.logs = @ \cup {l}]

\* a call suspends; more than MaxTasks in flight is beyond the model's bound
Spawn(S, t) ==
  IF BagCardinality(S.tasks) >= MaxTasks THEN [S EXCEPT !.ok = FALSE]
  ELSE [S EXCEPT !.tasks = @ (+) SetToBag({t})]

\* the state as the resumed call t finds it
Resume(S, t) == [S EXCEPT !.tasks = @ (-) SetToBag({t})]

isConnected(S) == S.state # DISCONNECTED
isStreaming(S) == S.state = STREAMING

\* _sendRaw's guard: the packet is handed to the transport, or silently dropped
CanSend(S) == S.port # 0 /\ isConnected(S)

\* _sendRaw up to writer.write(): dropped by the guard, thrown by getWriter()
\* (the lock of an errored writable was never released), or pending
Issue(S) ==
  IF ~CanSend(S) THEN [st |-> S, pending |-> FALSE]
  ELSE IF S.txBroken THEN [st |-> Log(S, "txErr"), pending |-> FALSE]
  ELSE [st |-> S, pending |-> TRUE]

\* _sendRaw after writer.write(): confirmed (the command is on the wire), or
\* it throws, which is logged and skips releaseLock()
Cut(u) == IF u.sent # <<>> THEN [u EXCEPT !.cut = TRUE] ELSE u

\* a _sendRaw whose catch block also drops the session
Written_Drop(S, t, cmd, r) ==
  IF r = "ok"
  THEN [st |-> [S EXCEPT !.tasks = BagOfAll(Cut, @), !.mixed = @ \/ t.cut],
        t |-> [t EXCEPT !.sent = Append(@, cmd)]]
  ELSE [st |-> [Log(S, "txErr") EXCEPT !.txBroken = TRUE, !.ops = @ + 1,
                                       !.state = DISCONNECTED], t |-> t]

Written(S, t, cmd, r) ==
  IF r = "ok"
  THEN [st |-> [S EXCEPT !.tasks = BagOfAll(Cut, @), !.mixed = @ \/ t.cut],
        t |-> [t EXCEPT !.sent = Append(@, cmd)]]
  ELSE [st |-> [Log(S, "txErr") EXCEPT !.txBroken = TRUE, !.ops = @ + 1], t |-> t]

\* startNormal / startFast up to the first suspension
StartX(S, m, org, em) ==
  IF ~isConnected(S) \/ isStreaming(S) THEN S
  ELSE LET S1 == [S EXCEPT !.streamMode = m] IN
       IF Len(S1.sensorIds) = 0 THEN Log(S1, "noSensors")
       ELSE LET w == Issue(S1) IN
            Spawn(w.st, [Task("start", IF w.pending THEN "write" ELSE "sleep",
                              1, m, org, em)
                           EXCEPT !.mask = MaskOf(m, S1.sensorIds)])

\* Bridge._startStreaming: when startNormal / startFast returns at once, the
\* counter is reset in the same task
StartStreaming(S, org) ==
  LET S1 == StartX(S, S.mode, org, "-")
  IN IF ~isConnected(S) \/ isStreaming(S) \/ Len(S.sensorIds) = 0
     THEN [S1 EXCEPT !.uartSentCount = 0]
     ELSE S1

RECURSIVE SetState(_, _)

\* stopStreaming up to its first suspension; with StopLogin not pending it
\* runs on to _setState(CONNECTED)
StopStreaming(S, org) ==
  IF ~isStreaming(S) THEN S
  ELSE LET w == Issue(S) IN
       IF w.pending THEN Spawn(w.st, Task("stop", "write", 1, "-", org, "-"))
       ELSE SetState(w.st, CONNECTED)

\* _checkAutoStream without its auto-stop branch
CheckAutoStream_NoStop(S) ==
  IF S.state = CONNECTED /\ S.mbState = CONNECTED /\ Len(S.sensorIds) > 0
  THEN StartStreaming([Log(S, "autoStart") EXCEPT !.autoStarted = TRUE], "auto")
  ELSE S

CheckAutoStream(S) ==
  LET labReady == S.state = CONNECTED
      microReady == S.mbState = CONNECTED
      streaming == isStreaming(S)
      S1 == IF labReady /\ microReady /\ ~streaming /\ Len(S.sensorIds) > 0
            THEN StartStreaming([Log(S, "autoStart") EXCEPT !.autoStarted = TRUE],
                                "auto")
            ELSE S
  IN IF ~microReady /\ streaming /\ S1.autoStarted
     THEN StopStreaming([Log(S1, "autoStop") EXCEPT !.autoStarted = FALSE], "auto")
     ELSE S1

\* LabdiscConnection._setState with the orchestrator's onStateChange
SetState(S, new) ==
  IF S.state = new THEN S
  ELSE CheckAutoStream([S EXCEPT !.state = new,
                                 !.trans = @ \cup {<<S.state, new>>},
                                 !.manual = @ /\ new # DISCONNECTED])

\* MicrobitBLE._setState with the orchestrator's onStateChange
MbSetState(S, new) ==
  IF S.mbState = new THEN S ELSE CheckAutoStream([S EXCEPT !.mbState = new])

\* the session, the orchestrator and the Beacon link after construction
SessionInit ==
  /\ state = DISCONNECTED /\ port = 0 /\ reader = FALSE /\ loops = 0
  /\ txBroken = FALSE
  /\ streamMode = "normal" /\ deviceStatus = 0 /\ sensorIds = <<>>
  /\ mbState = DISCONNECTED /\ mbPending = FALSE
  /\ mode = "normal" /\ autoStarted = FALSE
  /\ tasks = EmptyBag
  /\ ops = 0 /\ logs = {} /\ trans = {} /\ fin = {} /\ mixed = FALSE
  /\ manual = FALSE
  /\ displayValues = <<>> /\ lastUartLine = <<>> /\ uartSentCount = 0
  /\ txLines = <<>> /\ sample = [got |-> FALSE]
  /\ gatt = <<>> /\ wire = <<>> /\ lines = <<>>
  /\ buffer = <<>> /\ packetCount = 0 /\ events = <<>>
  /\ warns = 0 /\ discarded = 0 /\ turns = <<>>

Init ==
  /\ SessionInit
  /\ stream = <<>> /\ fed = 0
  /\ arg = NoCall /\ res = NoRes

\* ---- LabdiscConnection.connect ----
ConnectLabdisc ==
  /\ ~isConnected(Cur)
  /\ Commit(Spawn(SetState(BeginOp, CONNECTING),
                  Task("connect", "requestPort", 0, "-", "-", "-")))

\* connect()'s catch: NotFoundError (the picker was cancelled) is not logged;
\* history: the call is recorded as ended, its pc telling how
ConnectFailed(S, t, r) ==
  LET S1 == IF r = "cancel" THEN S ELSE Log(S, "connErr")
      S2 == SetState(S1, DISCONNECTED)
  IN [S2 EXCEPT !.port = 0, !.ops = @ + 1, !.fin = @ \cup {[t EXCEPT !.pc = r]}]

\* _readLoop up to its first suspension in reader.read()
StartReadLoop(S) ==
  IF isConnected(S) /\ S.port # 0
  THEN IF S.loops < MaxLoops THEN [S EXCEPT !.reader = TRUE, !.loops = @ + 1]
       ELSE [S EXCEPT !.ok = FALSE]
  ELSE S

\* connect after its k-th command was written, failed or dropped
ConnectAfterSend(S, t) ==
  IF t.k < Len(ConnectSeq)
  THEN Spawn(S, [t EXCEPT !.pc = "sleep", !.k = @ + 1])
  ELSE S

ConnectStepS(S, t, r) ==
  CASE t.pc = "requestPort" ->
         IF r = "ok"
         THEN Spawn([S EXCEPT !.port = 1, !.txBroken = FALSE], [t EXCEPT !.pc = "open"])
         ELSE ConnectFailed(S, t, r)
    [] t.pc = "open" ->
         IF r = "ok"
         THEN Spawn(StartReadLoop(SetState(S, CONNECTED)),
                    [t EXCEPT !.pc = "sleep", !.k = 1])
         ELSE ConnectFailed(S, t, r)
    [] t.pc = "sleep" ->
         LET w == Issue(S) IN
         IF w.pending THEN Spawn(w.st, [t EXCEPT !.pc = "write"])
         ELSE ConnectAfterSend(w.st, t)
    [] t.pc = "write" ->
         LET w == Written(S, t, ConnectSeq[t.k], r) IN ConnectAfterSend(w.st, w.t)

ConnectStep ==
  \E t \in BagToSet(tasks), r \in {"ok", "fail", "cancel"} :
    /\ t.kind = "connect"
    /\ r = "cancel" => t.pc = "requestPort"
    /\ r = "fail" => t.pc # "sleep"
    /\ Commit(ConnectStepS(Resume(Begin, t), t, r))

\* ---- LabdiscConnection.disconnect ----
DisconnectFinal(S) ==
  SetState([S EXCEPT !.reader = FALSE, !.port = 0, !.loops = 0,
                     !.sensorIds = <<>>, !.deviceStatus = 0],
           DISCONNECTED)

\* disconnect from reader.cancel() on: it suspends in cancel() when there is a
\* reader, in close() when there is a port
DisconnectTeardown(S, from) ==
  IF from = "stop" /\ S.reader
    THEN Spawn(S, Task("disconnect", "cancel", 0, "-", "-", "-"))
  ELSE IF from \in {"stop", "cancel"} /\ S.port # 0
    THEN Spawn(S, Task("disconnect", "close", 0, "-", "-", "-"))
  ELSE DisconnectFinal(S)

DisconnectS(S) ==
  IF isStreaming(S)
  THEN LET w == Issue(S) IN
       Spawn(w.st, Task("disconnect", IF w.pending THEN "write" ELSE "sleep",
                        1, "-", "-", "-"))
  ELSE DisconnectTeardown(S, "stop")

DisconnectLabdisc ==
  /\ isConnected(Cur)
  /\ Commit(DisconnectS([BeginOp EXCEPT !.manual = FALSE]))

DisconnectStepS(S, t, r) ==
  CASE t.pc = "write" ->
         LET w == Written(S, t, CMD_STOP_LOGIN, r) IN
         Spawn(w.st, [w.t EXCEPT !.pc = "sleep"])
    [] t.pc = "sleep" -> DisconnectTeardown(S, "stop")
    [] t.pc = "cancel" -> DisconnectTeardown(S, "cancel")
    [] t.pc = "close" -> DisconnectTeardown(S, "close")

DisconnectStep ==
  \E t \in BagToSet(tasks), r \in {"ok", "fail"} :
    /\ t.kind = "disconnect"
    /\ r = "fail" => t.pc = "write"
    /\ Commit(DisconnectStepS(Resume(Begin, t), t, r))

\* ---- startNormal / startFast after the first suspension ----
\* after the awaited StartLogin: _setState(STREAMING); a call made by
\* Bridge._startStreaming then returns to it, and the counter is reset
StartFinish(S, t) ==
  LET S1 == SetState([S EXCEPT !.fin = @ \cup {t}], STREAMING)
  IN IF t.origin \in {"auto", "manual"} THEN [S1 EXCEPT !.uartSentCount = 0] ELSE S1

\* the start procedure issues its next command, the (k+1)-th
StartSendNext(S, t) ==
  LET k == t.k + 1
      w == Issue(S)
  IN IF w.pending THEN Spawn(w.st, [t EXCEPT !.pc = "write", !.k = k])
     ELSE IF k < Len(StartSeq) THEN Spawn(w.st, [t EXCEPT !.pc = "sleep", !.k = k])
     ELSE StartFinish(w.st, t)

StartStepS(S, t, r) ==
  CASE t.pc = "write" ->
         LET w == Written(S, t, StartSeq[t.k], r) IN
         IF t.k < Len(StartSeq) THEN Spawn(w.st, [w.t EXCEPT !.pc = "sleep"])
         ELSE StartFinish(w.st, w.t)
    [] t.pc = "sleep" -> StartSendNext(S, t)

StartStep ==
  \E t \in BagToSet(tasks), r \in {"ok", "fail"} :
    /\ t.kind = "start"
    /\ r = "fail" => t.pc = "write"
    /\ Commit(StartStepS(Resume(Begin, t), t, r))

\* ---- stopStreaming after the awaited StopLogin ----
StopStepS(S, t, r) ==
  LET w == Written(S, t, CMD_STOP_LOGIN, r) IN
  SetState([w.st EXCEPT !.fin = @ \cup {w.t}], CONNECTED)

StopStep ==
  \E t \in BagToSet(tasks), r \in {"ok", "fail"} :
    /\ t.kind = "stop"
    /\ Commit(StopStepS(Resume(Begin, t), t, r))

\* ---- _handleExperimentEnd ----
HandleExperimentEnd(S) ==
  Spawn(SetState(S, CONNECTED), Task("restart", "sleep", 0, "-", "-", S.streamMode))

RestartStepS(S, t) == StartX(S, S.streamMode, "restart", t.endMode)

RestartStep ==
  \E t \in BagToSet(tasks) :
    /\ t.kind = "restart"
    /\ Commit(RestartStepS(Resume(Begin, t), t))

\* ---- _readLoop: bytes arrive and the parser dispatches a packet ----
RecvSensorIds ==
  \E ids \in IdLists :
    /\ loops > 0
    /\ Commit([BeginOp EXCEPT !.sensorIds = ids])

OnStatus(S, sub) ==
  LET S1 == [S EXCEPT !.deviceStatus = sub] IN
  IF sub = SUB_STOP_LOGIN_ACK /\ S1.state = STREAMING
  THEN HandleExperimentEnd(S1)
  ELSE S1

RecvStatus ==
  \E sub \in StatusSubs :
    /\ loops > 0
    /\ Commit(OnStatus(BeginOp, sub))

\* reader.read() throws: logged while connected, and the loop ends
ReadErrorS(S) ==
  LET S1 == IF isConnected(S) THEN Log(S, "readErr") ELSE S
  IN [S1 EXCEPT !.loops = @ - 1]

ReadError ==
  /\ loops > 0
  /\ Commit(ReadErrorS(BeginOp))

\* ---- Bridge public API ----
ManualStartStream ==
  /\ isConnected(Cur) /\ ~isStreaming(Cur)
  /\ Commit(StartStreaming([BeginOp EXCEPT !.autoStarted = FALSE,
                                             !.manual = Len(sensorIds) > 0],
                            "manual"))

ManualStopStream ==
  /\ isStreaming(Cur)
  /\ Commit(StopStreaming([BeginOp EXCEPT !.autoStarted = FALSE, !.manual = FALSE],
                           "manual"))

SetMode ==
  \E m \in Modes :
    /\ m # mode
    /\ Commit([BeginOp EXCEPT !.mode = m])

\* ---- MicrobitBLE ----
\* connect(), one call at a time
ConnectMicrobit ==
  /\ mbState # CONNECTED
  /\ ~mbPending
  /\ Commit([MbSetState(BeginOp, CONNECTING) EXCEPT !.mbPending = TRUE])

MbConnectDone ==
  \E r \in {"ok", "fail"} :
    /\ mbPending
    /\ Commit([MbSetState(Begin, IF r = "ok" THEN CONNECTED ELSE DISCONNECTED)
                 EXCEPT !.mbPending = FALSE])

\* the gattserverdisconnected event, or MicrobitBLE.disconnect()
MbDisconnected ==
  /\ mbState = CONNECTED
  /\ Commit(MbSetState(BeginOp, DISCONNECTED))

Next ==
  \/ ConnectLabdisc
  \/ ConnectStep
  \/ DisconnectLabdisc
  \/ DisconnectStep
  \/ ManualStartStream
  \/ ManualStopStream
  \/ SetMode
  \/ StartStep
  \/ StopStep
  \/ RestartStep
  \/ RecvSensorIds
  \/ RecvStatus
  \/ ReadError
  \/ ConnectMicrobit
  \/ MbConnectDone
  \/ MbDisconnected

Spec == Init /\ [][Next]_vars

\* the runs checked for progress: the transport answers every pending
\* StopLogin write (it confirms or fails)
FairNext ==
  \/ ConnectLabdisc /\ ops' <= MaxFairOps
  \/ ConnectStep /\ ops' <= MaxFairOps
  \/ DisconnectLabdisc /\ ops' <= MaxFairOps
  \/ DisconnectStep /\ ops' <= MaxFairOps
  \/ ManualStartStream /\ ops' <= MaxFairOps
  \/ ManualStopStream /\ ops' <= MaxFairOps
  \/ SetMode /\ ops' <= MaxFairOps
  \/ StartStep /\ ops' <= MaxFairOps
  \/ StopStep /\ ops' <= MaxFairOps
  \/ RestartStep /\ ops' <= MaxFairOps
  \/ RecvSensorIds /\ ops' <= MaxFairOps
  \/ RecvStatus /\ ops' <= MaxFairOps
  \/ ReadError /\ ops' <= MaxFairOps
  \/ ConnectMicrobit /\ ops' <= MaxFairOps
  \/ MbConnectDone /\ ops' <= MaxFairOps
  \/ MbDisconnected /\ ops' <= MaxFairOps

FairSpec == Init /\ [][FairNext]_vars /\ WF_vars(StopStep)

TypeOK ==
  /\ state \in ConnectionState
  /\ mbState \in BleState
  /\ port \in {0, 1}
  /\ loops \in 0..MaxLoops
  /\ warns \in Nat /\ discarded \in Nat
  /\ uartSentCount \in 0..MaxOps

\* ---- LabdiscParser: framing and dispatch ----
\* the sum of the bytes of s
RECURSIVE Sum(_)
Sum(s) ==
  IF Len(s) = 0 THEN 0
  ELSE IF Len(s) = 1 THEN s[1]
  ELSE LET h == Len(s) \div 2
       IN Sum(SubSeq(s, 1, h)) + Sum(SubSeq(s, h + 1, Len(s)))

\* a checksum that is the plain byte sum
calcChecksum_Sum(bytes) == Sum(bytes) % 256

\* a checksum without the outer reduction: 256 when the sum is a multiple of 256
calcChecksum_NoWrap(bytes) == 256 - (Sum(bytes) % 256)

calcChecksum(bytes) == (256 - (Sum(bytes) % 256)) % 256

\* a framer that skips the checksum test
verifyChecksum_Any(packet) == TRUE

verifyChecksum(packet) == Sum(packet) % 256 = 0

\* buf.splice(0, n)
Drop(s, n) == IF n >= Len(s) THEN <<>> ELSE SubSeq(s, n + 1, Len(s))

\* the first index of the header 0x2E 0x69 in buf, 0 when there is none
FindHeader(buf) ==
  LET I == {i \in 1..(Len(buf) - 1) : buf[i] = HDR_0 /\ buf[i + 1] = HDR_1}
  IN IF I = {} THEN 0 ELSE CHOOSE i \in I : \A j \in I : i <= j

\* _getPacketLength: 0 stands for null
GetPacketLength(type, buf) ==
  IF type = RSP_SENSOR_IDS THEN LEN_SENSOR_IDS
  ELSE IF type = RSP_DEVICE_STATUS THEN LEN_DEVICE_STATUS
  ELSE IF type \in {RSP_ONLINE_DATA, RSP_EXPERIMENT_DATA, RSP_CONFIG}
       THEN IF Len(buf) >= 4 THEN buf[4] ELSE 0
  ELSE 0

\* an emitted event: the handler, the packet it read, and the sensor-id list
\* and packet count it was emitted with
Event(type, pkt, ids, count) == [type |-> type, pkt |-> pkt, ids |-> ids, count |-> count]

Emit(P, e) == [P EXCEPT !.events = Append(@, e)]

\* a handler that caches the payload as it is, zero bytes included
ParseSensorIds_All(P, pkt) ==
  LET ids == SubSeq(pkt, 4, Len(pkt) - 1)
  IN Emit([P EXCEPT !.sensorIds = ids], Event("ids", pkt, ids, P.packetCount))

ParseSensorIds(P, pkt) ==
  LET ids == SelectSeq(SubSeq(pkt, 4, Len(pkt) - 1), LAMBDA b : b # 0)
  IN Emit([P EXCEPT !.sensorIds = ids], Event("ids", pkt, ids, P.packetCount))

ParseStatus(P, pkt) == Emit(P, Event("status", pkt, P.sensorIds, P.packetCount))

\* _parseOnlineData and _parseExperimentData: nothing without a sensor-id
\* list; else the packet is counted and its readings are emitted
ParseData(P, pkt) ==
  IF Len(P.sensorIds) = 0 THEN P
  ELSE LET P1 == [P EXCEPT !.packetCount = @ + 1]
       IN Emit(P1, Event("data", pkt, P1.sensorIds, P1.packetCount))

HandlePacket(P, type, pkt) ==
  CASE type = RSP_SENSOR_IDS -> ParseSensorIds(P, pkt)
    [] type = RSP_DEVICE_STATUS -> ParseStatus(P, pkt)
    [] type = RSP_ONLINE_DATA -> ParseData(P, pkt)
    [] type = RSP_EXPERIMENT_DATA -> ParseData(P, pkt)
    [] OTHER -> P

\* a splice that removes nothing
Discard_Keep(P, buf, n) == [P EXCEPT !.buffer = buf]

\* buf.splice(0, n) of bytes that belong to no packet handed to a handler
Discard(P, buf, n) ==
  [P EXCEPT !.buffer = Drop(buf, n),
            !.discarded = @ + (IF n < Len(buf) THEN n ELSE Len(buf))]

\* _log('warn', ...)
Warn(P) == [P EXCEPT !.warns = @ + 1]

\* history: an iteration that began with P ends with Q, and the loop goes on
\* (more) or is left by break
Turn(P, Q, more) ==
  [Q EXCEPT !.turns = Append(@, [before |-> Len(P.buffer), after |-> Len(Q.buffer),
                                 more |-> more])]

\* _processBuffer's while loop, safety being the iterations run so far
RECURSIVE ProcessLoop(_, _)
ProcessLoop(P, safety) ==
  IF Len(P.buffer) < MIN_FRAME \/ safety >= SAFETY_CAP THEN P
  ELSE
    LET s == safety + 1
        hdr == FindHeader(P.buffer)
        Q == Discard(P, P.buffer, hdr - 1)
        buf == Q.buffer
        type == buf[3]
        len == GetPacketLength(type, buf)
        pkt == SubSeq(buf, 1, len)
        back == Tail(pkt) \o Drop(buf, len)
    IN IF hdr = 0
         THEN IF Len(P.buffer) > PRUNE_OVER
              THEN Turn(P, Discard(P, P.buffer, Len(P.buffer) - 2), FALSE)
              ELSE Turn(P, P, FALSE)
       ELSE IF Len(buf) < MIN_FRAME THEN Turn(P, Q, FALSE)
       ELSE IF len = 0 THEN ProcessLoop(Turn(P, Discard(Q, buf, 1), TRUE), s)
       ELSE IF len < MIN_FRAME \/ len > MAX_FRAME
         THEN ProcessLoop(Turn(P, Discard(Q, buf, 1), TRUE), s)
       ELSE IF Len(buf) < len THEN Turn(P, Q, FALSE)
       ELSE IF verifyChecksum(pkt)
         THEN ProcessLoop(Turn(P, HandlePacket([Q EXCEPT !.buffer = Drop(buf, len)],
                                               type, pkt), TRUE), s)
       ELSE ProcessLoop(Turn(P, Discard(Warn(Q), <<pkt[1]>> \o back,
                                        IF s > RESYNC_AFTER THEN 1 + RESYNC_DROP ELSE 1),
                             TRUE), s)

ProcessBuffer(P) == ProcessLoop([P EXCEPT !.turns = <<>>], 0)

\* feed(bytes)
Feed(P, bytes) == ProcessBuffer([P EXCEPT !.buffer = @ \o bytes])

\* a parser after construction
FreshParser == [buffer |-> <<>>, sensorIds |-> <<>>, packetCount |-> 0, events |-> <<>>,
                warns |-> 0, discarded |-> 0, turns |-> <<>>]

CurParser == [buffer |-> buffer, sensorIds |-> sensorIds, packetCount |-> packetCount,
              events |-> events, warns |-> warns, discarded |-> discarded,
              turns |-> turns]

\* ---- byte streams the Logger may deliver ----
\* s repeated n times
Rep(s, n) == [i \in 1..(n * Len(s)) |-> s[((i - 1) % Len(s)) + 1]]

WithChecksum(bytes) == Append(bytes, calcChecksum(bytes))

IdsPkt == WithChecksum(<<HDR_0, HDR_1, RSP_SENSOR_IDS, 30, 7>> \o Rep(<<0>>, 15))
StatusPkt == WithChecksum(<<HDR_0, HDR_1, RSP_DEVICE_STATUS, SUB_STOP_LOGIN_ACK>>
                          \o Rep(<<0>>, 28))
OnlinePkt == WithChecksum(<<HDR_0, HDR_1, RSP_ONLINE_DATA, 9, 1, 7, 0, 0>>)
BadPkt == <<HDR_0, HDR_1, RSP_ONLINE_DATA, 5, 0>>

Streams ==
  { IdsPkt \o StatusPkt \o OnlinePkt,
    <<1, HDR_0, 2>> \o IdsPkt \o BadPkt \o OnlinePkt,
    Rep(<<HDR_0, HDR_1>>, JunkPairs) \o IdsPkt,
    Rep(BadPkt, BadPackets) \o IdsPkt }

\* sizes of the chunks a read hands to feed(), besides all that is left
ChunkSizes == {1, 7}

ParserInit ==
  /\ SessionInit
  /\ stream \in Streams /\ fed = 0
  /\ arg = NoCall /\ res = NoRes

\* the read loop hands the next chunk of the stream to feed()
FeedChunk ==
  \E n \in ChunkSizes \cup {Len(stream) - fed} :
    /\ n >= 1 /\ fed + n <= Len(stream)
    /\ LET P == Feed(CurParser, SubSeq(stream, fed + 1, fed + n))
       IN /\ buffer' = P.buffer /\ sensorIds' = P.sensorIds
          /\ packetCount' = P.packetCount /\ events' = P.events
          /\ warns' = P.warns /\ discarded' = P.discarded /\ turns' = P.turns
    /\ fed' = fed + n
    /\ UNCHANGED <<state, port, reader, loops, txBroken, streamMode, deviceStatus,
                   mbState, mbPending, mode, autoStarted, tasks, ops, logs, trans,
                   fin, mixed, manual, displayValues, lastUartLine, uartSentCount,
                   txLines, sample, gatt, wire, lines, stream, arg, res>>

ParserNext == FeedChunk

SpecParser == ParserInit /\ [][ParserNext]_vars

\* ---- properties of the session ----

\* the start calls in flight that origin org made
StartsBy(org) ==
  BagCardinality([t \in {u \in BagToSet(tasks) : u.kind = "start" /\ u.origin = org}
                    |-> CopiesIn(t, tasks)])

\* C1: every startNormal / startFast call that sets the state to Streaming has
\* had the transport take StopLogin, GetSensorIDs, GetSensorStatus,
\* StartExperiment, StartLogin, in that order and with no step skipped
C1_HandshakeComplete ==
  \A t \in fin : t.kind = "start" => t.sent = StartSeq

\* C2: the commands of two command sequences are never interleaved on the
\* Logger transport: no call writes a command after another call wrote into
\* its unfinished sequence
C2_NoInterleaving == ~mixed

\* C3: at most one automatic start sequence is under way: a repeated
\* state-change event triggers no second one
C3_OneAutoStart == StartsBy("auto") <= 1

\* C4: while a stream started by manualStartStream is alive (until
\* manualStopStream or a Logger disconnect), no state change makes the
\* orchestrator auto-stop it
C4_ManualNeverAutoStopped == manual => "autoStop" \notin logs

\* stopStreaming was called for the orchestrator in this step: its StopLogin
\* is pending, or it ran on to Connected
AutoStopCalled ==
  \/ \E t \in BagToSet(tasks') :
       /\ t.kind = "stop" /\ t.origin = "auto"
       /\ CopiesIn(t, tasks') > CopiesIn(t, tasks)
  \/ <<STREAMING, CONNECTED>> \in trans'

AutoStopPending == \E t \in BagToSet(tasks) : t.kind = "stop" /\ t.origin = "auto"

C6_NoSessionWithoutPort == port = 0 => state \in {DISCONNECTED, CONNECTING}

AllowedTransitions ==
  {<<DISCONNECTED, CONNECTING>>, <<CONNECTING, CONNECTED>>,
   <<CONNECTED, STREAMING>>, <<STREAMING, CONNECTED>>}
  \cup {<<s, DISCONNECTED>> : s \in ConnectionState}

\* C7: every change of the session state is one of the allowed transitions
C7_AllowedTransitionsOnly == trans \subseteq AllowedTransitions

\* C8: a read error while the session is Connected or Streaming is logged and
\* leaves the session Disconnected
C8_ReadErrorDisconnects ==
  [][(state \in {CONNECTED, STREAMING} /\ loops' < loops /\ state' # DISCONNECTED)
     => FALSE]_vars

\* C9: the start procedure the auto-restart issues after a stream completion
\* has the mode that was streaming before the completion
C9_RestartSameMode ==
  \A t \in BagToSet(tasks) :
    (t.kind = "start" /\ t.origin = "restart") => t.mode = t.endMode

\* ---- properties of the parser ----

\* C10: once the whole stream is fed, in whatever chunks, the parser has
\* emitted exactly the events a fresh parser emits for the stream fed in one
\* call
C10_ChunkingInvariant ==
  fed = Len(stream) => events = Feed(FreshParser, stream).events

\* ---- framer resync: a corrupted packet between two valid ones ----

\* the packet with its i-th byte replaced by v
Corrupt(pkt, i, v) == [pkt EXCEPT ![i] = v]

\* byte values a corruption may leave
CorruptValues == {0, 5, HDR_0, HDR_1, RSP_ONLINE_DATA, RSP_DEVICE_STATUS, 200, 255}

\* a valid packet with exactly one interior byte changed
Corrupted(pkt) ==
  {Corrupt(pkt, i, v) : i \in 2..(Len(pkt) - 1), v \in CorruptValues}
  \ {pkt}

\* a sensor-id packet, a corrupted data packet, and a status packet right after
ResyncStreams == {IdsPkt \o c \o StatusPkt : c \in Corrupted(OnlinePkt)}

ResyncInit ==
  /\ SessionInit
  /\ stream \in ResyncStreams /\ fed = 0
  /\ arg = NoCall /\ res = NoRes

SpecResync == ResyncInit /\ [][ParserNext]_vars

\* C11: once a sensor-id packet, a data packet with one interior byte
\* corrupted and a status packet are fed, the parser has emitted the
\* sensor-id event and the status event and no event for the corrupted packet
C11_ResyncNextPacket ==
  (stream \in ResyncStreams /\ fed = Len(stream)) =>
    events = <<Event("ids", IdsPkt, <<30, 7>>, 0), Event("status", StatusPkt, <<30, 7>>, 0)>>

\* C12: every event the parser emitted was emitted for a frame that starts
\* with the header 0x2E 0x69, has the length its type determines, and whose
\* bytes sum to 0 mod 256; no frame with a failing checksum has an event
C12_OnlyValidFramesDispatched ==
  \A i \in 1..Len(events) :
    LET p == events[i].pkt
    IN /\ Len(p) >= MIN_FRAME
       /\ p[1] = HDR_0 /\ p[2] = HDR_1
       /\ Len(p) = GetPacketLength(p[3], p)
       /\ Sum(p) % 256 = 0

\* a candidate frame failed its checksum, and the two valid packets around it
\* were dispatched
C12_RejectedAndDispatched ==
  /\ stream \in ResyncStreams /\ fed = Len(stream)
  /\ warns > 0 /\ Len(events) = 2

\* C13: whenever the parser has thrown bytes away in error recovery, it has
\* logged at least one 'warn' line
C13_DiscardLogged == discarded > 0 => warns > 0

\* ---- command builders ----
CMD_HEADER == <<71, 20>>

\* new Uint8Array(bytes): every element is taken mod 256
Uint8Array(bytes) == [i \in 1..Len(bytes) |-> bytes[i] % 256]

buildCommand(code) ==
  LET bytes == CMD_HEADER \o <<code>>
  IN Uint8Array(Append(bytes, calcChecksum(bytes)))

buildCommandWithPayload(code, payload) ==
  LET bytes == CMD_HEADER \o <<code>> \o payload
  IN Uint8Array(Append(bytes, calcChecksum(bytes)))

buildStartExperiment(maskHi, maskLo, rateIdx, countIdx) ==
  buildCommandWithPayload(CMD_START_EXPERIMENT,
                          <<maskHi, maskLo, rateIdx, countIdx, 0, 0, 0, 0, 0, 0, 0, 0, 0>>)

\* the longest payload tried
MaxPayload == 3

Codes == {0, CMD_GET_SENSOR_STATUS, CMD_START_EXPERIMENT, CMD_START_LOGIN,
          CMD_STOP_LOGIN, CMD_GET_SENSOR_IDS, 255}
PayloadBytes == {0, 1, 255}
Payloads == UNION {[1..n -> PayloadBytes] : n \in 0..MaxPayload}
MaskBytes == {0, 1, 128, 255}

BuildCalls ==
  {[fn |-> "buildCommand", code |-> c] : c \in Codes}
  \cup {[fn |-> "buildCommandWithPayload", code |-> c, payload |-> p] :
          c \in Codes, p \in Payloads}
  \cup {[fn |-> "buildStartExperiment", maskHi |-> h, maskLo |-> l,
         rateIdx |-> r, countIdx |-> n] :
          h \in MaskBytes, l \in MaskBytes, r \in {2, 3, 4}, n \in {0, 1, 3}}

BuildInit ==
  /\ SessionInit
  /\ stream = <<>> /\ fed = 0
  /\ arg \in BuildCalls /\ res = NoRes

\* the builder is called and returns its packet
Build ==
  /\ ~res.done
  /\ res' = Returned(CASE arg.fn = "buildCommand" -> buildCommand(arg.code)
                       [] arg.fn = "buildCommandWithPayload" ->
                            buildCommandWithPayload(arg.code, arg.payload)
                       [] arg.fn = "buildStartExperiment" ->
                            buildStartExperiment(arg.maskHi, arg.maskLo,
                                                 arg.rateIdx, arg.countIdx))
  /\ UNCHANGED <<sessionVars, parserVars, arg>>

SpecBuild == BuildInit /\ [][Build]_vars

\* C14: the packet a command builder returns has bytes that sum to 0 mod 256
\* and begins with 0x47 0x14 and the command code; buildStartExperiment
\* returns 17 bytes whose payload is maskHi, maskLo, rateIdx, countIdx and
\* nine zero bytes
C14_BuildersValid ==
  res.done =>
    /\ Sum(res.val) % 256 = 0
    /\ \A i \in 1..Len(res.val) : res.val[i] \in 0..255
    /\ SubSeq(res.val, 1, 2) = <<71, 20>>
    /\ arg.fn \in {"buildCommand", "buildCommandWithPayload"} => res.val[3] = arg.code
    /\ arg.fn = "buildStartExperiment" =>
         /\ Len(res.val) = 17
         /\ res.val[3] = 17
         /\ SubSeq(res.val, 4, 16) =
              <<arg.maskHi, arg.maskLo, arg.rateIdx, arg.countIdx,
                0, 0, 0, 0, 0, 0, 0, 0, 0>>

\* buildStartExperiment returned a packet whose byte sum passes 256
C14_StartExperimentBuilt ==
  /\ res.done /\ arg.fn = "buildStartExperiment"
  /\ arg.maskHi = 255 /\ arg.maskLo = 128
  /\ Sum(res.val) > 256

\* ---- formatter.js: the line sent to the Beacon ----
\* a number is held in thousandths: 26.3 is 26300
ValueScale == 1000

NO_DATA_VALUE == -9999

UART_ORDER ==
  << [id |-> 30, factor |-> 10], [id |-> 6, factor |-> 10], [id |-> 20, factor |-> 1],
     [id |-> 26, factor |-> 10], [id |-> 2, factor |-> 100], [id |-> 25, factor |-> 1000],
     [id |-> 21, factor |-> 10], [id |-> 13, factor |-> 10], [id |-> 27, factor |-> 1000],
     [id |-> 28, factor |-> 1000], [id |-> 33, factor |-> 1000],
     [id |-> 32, factor |-> 1000], [id |-> 4, factor |-> 10] >>

\* Math.round(num / den), den > 0: floor(x + 1/2)
\* rounding down instead
MathRound_Floor(num, den) == num \div den

MathRound(num, den) == (2 * num + den) \div (2 * den)

Digit(d) == <<"0", "1", "2", "3", "4", "5", "6", "7", "8", "9">>[d + 1]

\* String(n) of an integer, as its characters
RECURSIVE Digits(_)
Digits(n) == IF n < 10 THEN <<Digit(n)>> ELSE Append(Digits(n \div 10), Digit(n % 10))

ToChars(n) == IF n < 0 THEN <<"-">> \o Digits(-n) ELSE Digits(n)

\* parts.join(',')
RECURSIVE Join(_)
Join(parts) ==
  IF Len(parts) = 0 THEN <<>>
  ELSE IF Len(parts) = 1 THEN ToChars(parts[1])
  ELSE Join(SubSeq(parts, 1, Len(parts) - 1)) \o <<",">> \o ToChars(parts[Len(parts)])

\* values is a function from the sensor ids that have an entry to
\* { value, noData }, isNull telling a null or undefined value
formatForUART(values) ==
  LET part(entry) ==
        IF entry.id \notin DOMAIN values THEN NO_DATA_VALUE
        ELSE LET data == values[entry.id]
             IN IF data.noData \/ data.isNull THEN NO_DATA_VALUE
                ELSE MathRound(data.value * entry.factor, ValueScale)
      parts == [k \in 1..Len(UART_ORDER) |-> part(UART_ORDER[k])]
  IN Join(parts) \o <<"\n">>

\* String.prototype.trim
RECURSIVE trim(_)
trim(s) ==
  IF Len(s) = 0 THEN s
  ELSE IF s[1] \in {" ", "\n"} THEN trim(Tail(s))
  ELSE IF s[Len(s)] \in {" ", "\n"} THEN trim(SubSeq(s, 1, Len(s) - 1))
  ELSE s

\* sample maps handed to the formatter
SampleValues == {26300, 0, 49, 1250, -1250, -1500, 7004}
Entries == [noData : BOOLEAN, isNull : BOOLEAN, value : SampleValues]
SampleIds == {UART_ORDER[k].id : k \in 1..Len(UART_ORDER)} \cup {7}
Ambient == [noData |-> FALSE, isNull |-> FALSE, value |-> 26300]
SampleMaps ==
  {<<>>}
  \cup {[i \in {id} |-> e] : id \in SampleIds, e \in Entries}
  \cup {[i \in {id, 30} |-> IF i = 30 THEN Ambient ELSE e] :
          id \in SampleIds \ {30}, e \in Entries}

FormatCalls == {[fn |-> "formatForUART", values |-> m] : m \in SampleMaps}

FormatInit ==
  /\ SessionInit
  /\ stream = <<>> /\ fed = 0
  /\ arg \in FormatCalls /\ res = NoRes

Format ==
  /\ ~res.done
  /\ res' = Returned(formatForUART(arg.values))
  /\ UNCHANGED <<sessionVars, parserVars, arg>>

SpecFormat == FormatInit /\ [][Format]_vars

\* ---- reading a wire line back ----
DigitValue(c) == CHOOSE d \in 0..9 : Digit(d) = c

RECURSIVE Unsigned(_)
Unsigned(cs) ==
  IF Len(cs) = 1 THEN DigitValue(cs[1])
  ELSE 10 * Unsigned(SubSeq(cs, 1, Len(cs) - 1)) + DigitValue(cs[Len(cs)])

IsInteger(cs) ==
  LET ds == IF Len(cs) > 0 /\ cs[1] = "-" THEN Tail(cs) ELSE cs
  IN Len(ds) > 0 /\ \A i \in 1..Len(ds) : \E d \in 0..9 : ds[i] = Digit(d)

ParseInteger(cs) == IF cs[1] = "-" THEN -Unsigned(Tail(cs)) ELSE Unsigned(cs)

\* the pieces of cs between commas
RECURSIVE Split(_)
Split(cs) ==
  LET C == {i \in 1..Len(cs) : cs[i] = ","}
  IN IF C = {} THEN <<cs>>
     ELSE LET i == CHOOSE j \in C : \A k \in C : j >= k
          IN Append(Split(SubSeq(cs, 1, i - 1)), SubSeq(cs, i + 1, Len(cs)))

WireIds == <<30, 6, 20, 26, 2, 25, 21, 13, 27, 28, 33, 32, 4>>
WireFactors == <<10, 10, 1, 10, 100, 1000, 10, 10, 1000, 1000, 1000, 1000, 10>>

\* C16: formatForUART returns 13 comma-separated integers in the order of
\* sensor ids 30, 6, 20, 26, 2, 25, 21, 13, 27, 28, 33, 32, 4 and one newline
\* at the end; a field is -9999 when the sensor is absent, noData or has a
\* null value, and else an integer nearest to value times the wire factor
C16_WireLine ==
  (res.done /\ arg.fn = "formatForUART") =>
    LET line == res.val
        body == SubSeq(line, 1, Len(line) - 1)
        fields == Split(body)
    IN /\ Len(line) > 0 /\ line[Len(line)] = "\n"
       /\ \A i \in 1..Len(body) : body[i] # "\n"
       /\ Len(fields) = 13
       /\ \A k \in 1..13 :
            /\ IsInteger(fields[k])
            /\ LET f == ParseInteger(fields[k])
                   id == WireIds[k]
                   gone == \/ id \notin DOMAIN arg.values
                           \/ arg.values[id].noData
                           \/ arg.values[id].isNull
               IN IF gone THEN f = -9999
                  ELSE LET d == 1000 * f - arg.values[id].value * WireFactors[k]
                       IN -500 <= d /\ d <= 500

\* only ambient temperature 26.3 gives 263 and twelve -9999
C16_AmbientOnly ==
  /\ res.done /\ arg.fn = "formatForUART"
  /\ arg.values = [i \in {30} |-> Ambient]
  /\ res.val = <<"2", "6", "3">> \o Rep(<<",", "-", "9", "9", "9", "9">>, 12) \o <<"\n">>

\* ---- sensor catalog: decimals shown and wire factor ----
SENSORS ==
  LET T == << <<1, 2, 100>>, <<2, 2, 100>>, <<4, 1, 10>>, <<5, 1, 10>>, <<6, 1, 10>>,
              <<7, 0, 1>>, <<10, 1, 10>>, <<11, 1, 10>>, <<13, 1, 10>>, <<15, 1, 10>>,
              <<16, 1, 10>>, <<17, 1, 10>>, <<20, 0, 1>>, <<21, 1, 10>>, <<22, 0, 1>>,
              <<23, 0, 1>>, <<24, 5, 10000>>, <<25, 3, 1000>>, <<26, 1, 10>>,
              <<27, 3, 1000>>, <<28, 3, 1000>>, <<29, 1, 10>>, <<30, 1, 10>>,
              <<31, 1, 10>>, <<32, 3, 1000>>, <<33, 3, 1000>>, <<34, 0, 1>>,
              <<36, 3, 1000>>, <<37, 3, 1000>>, <<38, 3, 1000>>, <<39, 3, 1000>>,
              <<40, 2, 100>>, <<41, 1, 10>>, <<42, 1, 10>>, <<47, 2, 100>>,
              <<49, 3, 1000>>, <<50, 4, 10000>> >>
      row(id) == T[CHOOSE k \in 1..Len(T) : T[k][1] = id]
  IN [id \in {T[k][1] : k \in 1..Len(T)} |->
        [dec |-> row(id)[2], factor |-> row(id)[3], convert |-> id # 7]]

Pow10(n) == <<1, 10, 100, 1000, 10000, 100000>>[n + 1]

\* Number.prototype.toFixed(dec) of value (in thousandths), as its characters
toFixed(value, dec) ==
  LET a == IF value < 0 THEN -value ELSE value
      n == MathRound(a * Pow10(dec), ValueScale)
      ip == Digits(n \div Pow10(dec))
      fp == [k \in 1..dec |-> Digit((n \div Pow10(dec - k)) % 10)]
      body == IF dec = 0 THEN ip ELSE ip \o <<".">> \o fp
  IN IF value < 0 /\ n > 0 THEN <<"-">> \o body ELSE body

\* formatter.js formatForDisplay: a row per wire sensor
formatForDisplay(values) ==
  LET known == SelectSeq(UART_ORDER, LAMBDA entry : entry.id \in DOMAIN SENSORS)
      row(entry) ==
        IF \/ entry.id \notin DOMAIN values
           \/ values[entry.id].noData
           \/ values[entry.id].isNull
        THEN [id |-> entry.id, value |-> <<"-">>, hasData |-> FALSE]
        ELSE [id |-> entry.id,
              value |-> toFixed(values[entry.id].value, SENSORS[entry.id].dec),
              hasData |-> TRUE]
  IN [k \in 1..Len(known) |-> row(known[k])]

\* ---- Bridge: labdisc.onData ----
\* the sample maps the parser hands over
DataMaps ==
  {[i \in {30} |-> Ambient],
   [i \in {30, 6} |-> IF i = 30 THEN Ambient
                      ELSE [noData |-> TRUE, isNull |-> TRUE, value |-> 0]]}

\* an orchestrator that sends whatever the Beacon's state
OnData_Always(S, values) ==
  LET line == formatForUART(values)
  IN [S EXCEPT !.displayValues = formatForDisplay(values),
               !.lastUartLine = trim(line),
               !.sample = [got |-> TRUE, values |-> values],
               !.txLines = Append(@, line),
               !.uartSentCount = @ + 1]

\* MicrobitBLE.send's chunk size (BLE MTU)
chunkSize == 20

\* data.slice(i, i + chunkSize), i counted from 0
Chunk(data, i) ==
  SubSeq(data, i + 1, IF i + chunkSize < Len(data) THEN i + chunkSize ELSE Len(data))

\* rxCharacteristic.writeValue(chunk) is called by the send() call numbered n:
\* with no characteristic the call throws, which send() logs before it ends
WriteValue(S, n, data, i) ==
  IF S.mbState # CONNECTED
  THEN [Log(S, "bleErr") EXCEPT !.wire = Append(@, [n |-> n, bytes |-> <<>>,
                                                     res |-> "link"])]
  ELSE [S EXCEPT !.gatt = Append(@, [n |-> n, data |-> data, i |-> i])]

\* MicrobitBLE.send(text) up to its first await; the text is digits, commas,
\* minus signs and a newline, one byte each in UTF-8
Send(S, text) ==
  LET S1 == [S EXCEPT !.lines = Append(@, text)]
  IN IF S.mbState # CONNECTED \/ Len(text) = 0 THEN S1
     ELSE WriteValue(S1, Len(S1.lines), text, 0)

OnData(S, values) ==
  LET line == formatForUART(values)
      S1 == [S EXCEPT !.displayValues = formatForDisplay(values),
                      !.lastUartLine = trim(line),
                      !.sample = [got |-> TRUE, values |-> values]]
  IN IF S1.mbState = CONNECTED
     THEN Send([S1 EXCEPT !.txLines = Append(@, line), !.uartSentCount = @ + 1], line)
     ELSE S1

\* a data packet arrives: the parser emits it only with a sensor-id list
RecvData ==
  \E values \in DataMaps :
    /\ loops > 0 /\ Len(sensorIds) > 0
    /\ Commit(OnData(BeginOp, values))

\* s without its k-th element
Without(s, k) == SubSeq(s, 1, k - 1) \o SubSeq(s, k + 1, Len(s))

\* a writeValue in flight ends and its send() call goes on. The write issued
\* first is written ("ok") or fails with the link ("link"); one issued while
\* another was in flight is queued behind it by some platforms and rejected
\* by others ("busy": GATT operation already in progress)
WriteEnds(S, k, r) ==
  LET w == S.gatt[k]
      S1 == [S EXCEPT !.gatt = Without(@, k),
                      !.wire = Append(@, [n |-> w.n,
                                          bytes |-> IF r = "ok" THEN Chunk(w.data, w.i)
                                                    ELSE <<>>,
                                          res |-> r])]
  IN IF r # "ok" THEN Log(S1, "bleErr")
     ELSE IF w.i + chunkSize < Len(w.data)
       THEN WriteValue(S1, w.n, w.data, w.i + chunkSize)
     ELSE S1

BleWriteStep ==
  \E k \in 1..Len(gatt), r \in {"ok", "link", "busy"} :
    /\ r = "busy" <=> k > 1
    /\ r = "ok" => mbState = CONNECTED
    /\ Commit(WriteEnds(Begin, k, r))

\* the session's actions and the data packets, within the smaller budget
DataNext ==
  \/ FairNext
  \/ RecvData /\ ops' <= MaxFairOps

SpecData == Init /\ [][DataNext]_vars

\* C15: on every sample event the display rows and the last wire line are
\* set from the sample whatever the Beacon's state; the line is handed to the
\* Beacon and the sent-line counter grows by exactly one if the Beacon is
\* Connected at that moment, and else nothing is sent and the counter keeps
\* its value
C15_SampleEvent ==
  [][sample'.got =>
       /\ displayValues' = formatForDisplay(sample'.values)
       /\ lastUartLine' = trim(formatForUART(sample'.values))
       /\ IF mbState = CONNECTED
          THEN /\ txLines' = <<formatForUART(sample'.values)>>
               /\ uartSentCount' = uartSentCount + 1
          ELSE /\ txLines' = <<>>
               /\ uartSentCount' = uartSentCount]_vars

\* a sample line was sent to a connected Beacon
C15_LineSent ==
  /\ sample.got /\ mbState = CONNECTED
  /\ txLines = <<formatForUART(sample.values)>> /\ uartSentCount = 1

\* ---- sensors.js: conversions of a raw uint16 ----
\* a JavaScript number: whole + num / den, or not a finite number
Num(w, n, d) == [finite |-> TRUE, whole |-> w, num |-> n, den |-> d]
NaN == [finite |-> FALSE]

\* diff * slope, the slope given in units of 10^-7
Slope7(diff, s) == [num |-> diff * s, den |-> 10000000]

\* diff * slope, the slope given in units of 10^-5
Slope5(diff, s) ==
  IF s % 100 = 0 THEN [num |-> diff * (s \div 100), den |-> 1000]
  ELSE [num |-> diff * s, den |-> 100000]

\* t[i] of a JavaScript array, i counted from 0: the element or undefined
Defined(t, i) == i >= 0 /\ i < Len(t)
At(t, i) == t[i + 1]

\* the thermistor table t, slopes in units of 10^-7
ExtTempTable ==
  << 62587, -40, 56201, 61698, -35, 46082, 60613, -30, 38338,
     59309, -25, 32394, 57765, -20, 27826, 55968, -15, 24331,
     53913, -10, 21680, 51607, -5, 19704, 49069, 0, 18274,
     46333, 5, 17310, 43445, 10, 16739, 40458, 15, 16514,
     37430, 20, 16621, 34422, 25, 17029, 31486, 30, 17738,
     28667, 35, 18773, 26003, 40, 20116, 23518, 45, 21819,
     21226, 50, 23894, 19134, 55, 26435, 17242, 60, 29314,
     15537, 65, 32898, 14017, 70, 36839, 12659, 75, 41677,
     11460, 80, 46932, 10394, 85, 53328, 9457, 90, 60505,
     8630, 95, 68394, 7899, 100, 78301, 7261, 105, 88086,
     6693, 110, 101603, 6201, 115, 114695, 5765, 120, 128549,
     5376 >>

convertExtTemp(raw) ==
  LET t == ExtTempTable
      \* while (t[i * 3] > raw) i++
      stop(i) == ~(Defined(t, i * 3) /\ At(t, i * 3) > raw)
      i == CHOOSE j \in 0..Len(t) : stop(j) /\ \A k \in 0..(j - 1) : ~stop(k)
      idx == (i - 1) * 3
  IN IF raw > At(t, 0) THEN Num(At(t, 1), 0, 1)
     ELSE IF raw < At(t, Len(t) - 1) THEN Num(At(t, Len(t) - 4), 0, 1)
     ELSE IF ~Defined(t, idx) THEN NaN
     ELSE LET p == Slope7(At(t, idx) - raw, At(t, idx + 2))
          IN Num(At(t, idx + 1), p.num, p.den)

\* the illuminance table, slopes in units of 10^-5
LightTable ==
  << 0, 0, 54,
     3714, 2, 215,
     7427, 10, 269,
     11141, 20, 2154,
     14855, 100, 2693,
     18568, 200, 21542,
     22282, 1000, 26928,
     25996, 2000, 215400,
     29709, 10000, 269300,
     33423, 20000, 1884900,
     35280 >>

convertLight(raw) ==
  LET table == LightTable
      \* while (raw > table[i]) i += 3
      stop(i) == ~(Defined(table, i) /\ raw > At(table, i))
      J == {3 * j : j \in 0..Len(table)}
      i0 == CHOOSE j \in J : stop(j) /\ \A k \in J : k < j => ~stop(k)
      i == IF i0 # 0 THEN i0 - 3 ELSE i0
  IN IF raw = 0 \/ raw = 65535 THEN Num(0, 0, 1)
     ELSE IF ~Defined(table, i + 2) THEN NaN
     ELSE LET p == Slope5(raw - At(table, i), At(table, i + 2))
          IN Num(At(table, i + 1), p.num, p.den)

\* b.toString(16).padStart(2, '0') of a byte
HexDigit(d) == <<"0", "1", "2", "3", "4", "5", "6", "7", "8", "9",
                 "a", "b", "c", "d", "e", "f">>[d + 1]
ToHex(b) == <<HexDigit(b \div 16), HexDigit(b % 16)>>

\* parseInt(cs, 16)
RECURSIVE ParseHex(_)
ParseHex(cs) ==
  IF Len(cs) = 0 THEN 0
  ELSE 16 * ParseHex(SubSeq(cs, 1, Len(cs) - 1))
       + (CHOOSE d \in 0..15 : HexDigit(d) = cs[Len(cs)])

\* -x
Neg(x) == [x EXCEPT !.whole = -@, !.num = -@]

\* decodeGPSCoord; the degree sign of dms is written "o"
decodeGPSCoord(b0, b1, b2, b3) ==
  LET hex == ToHex(b0) \o ToHex(b1) \o ToHex(b2) \o ToHex(b3)
      deg == ParseHex(SubSeq(hex, 1, 2))
      minRaw == ParseHex(SubSeq(hex, 3, 6))
      dirHex == SubSeq(hex, 7, 8)
      isPositive == dirHex \in {<<"4", "e">>, <<"4", "5">>, <<"0", "0">>}
      \* deg + minutes / 60, minutes being minRaw / 1000
      decDeg == Num(deg, minRaw, 60000)
      hemi == IF dirHex = <<"4", "e">> THEN "N"
              ELSE IF dirHex = <<"5", "3">> THEN "S"
              ELSE IF dirHex = <<"4", "5">> THEN "E"
              ELSE IF dirHex = <<"5", "7">> THEN "W"
              ELSE "?"
  IN [decimal |-> IF isPositive THEN decDeg ELSE Neg(decDeg),
      dms |-> Digits(deg) \o <<"o">> \o toFixed(minRaw, 3) \o <<"'", hemi>>]

\* bytes of a coordinate as the packet holds them
GPSBytes ==
  {<<b0, b1, b2, b3>> : b0 \in {0, 34, 90, 255}, b1 \in {0, 1, 255}, b2 \in {0, 7, 255},
                        b3 \in {0, 65, 69, 78, 83, 87, 110, 255}}

\* mb(r, rMin, rMax, vMin, vMax), vMin and vMax given in units of 1/s
mb(r, rMin, rMax, vMin, vMax, s) ==
  Num(0, (r - rMin) * (vMax - vMin) + vMin * (rMax - rMin), (rMax - rMin) * s)

signed16(r) == IF r > 32767 THEN r - 65536 ELSE r

\* x / n
Over(x, n) == [x EXCEPT !.den = @ * n]

Max(a, b) == IF a > b THEN a ELSE b
Min(a, b) == IF a < b THEN a ELSE b

\* SENSORS[id].convert(r); the factor of sensor 24 is 1/21840 to the
\* precision of a double
SensorConvert(id, r) ==
  CASE id = 1 -> Num(0, Max(0, (r - 21845) * 687), 1000000)
    [] id = 2 -> Num(0, r, 1000)
    [] id = 4 -> mb(r, 5000, 11500, 500, 1150, 1)
    [] id = 5 -> mb(r, 5157, 32657, -170, 380, 1)
    [] id = 6 -> mb(r, 0, 1000, 0, 100, 1)
    [] id \in {10, 11, 31} -> Num(0, r, 10)
    [] id = 13 -> convertExtTemp(r)
    [] id \in {15, 16, 17} -> Over(mb(r, 0, 1000, 0, 100, 1), 10)
    [] id = 20 -> convertLight(r)
    [] id = 21 -> mb(r, 540, 960, 54, 96, 1)
    [] id \in {22, 23} -> Num(IF r > 240 THEN 0 ELSE r, 0, 1)
    [] id = 24 -> Num(0, r, 21840)
    [] id = 25 -> mb(r, 400, 10000, 4, 100, 10)
    [] id = 26 -> mb(r, 0, 3000, 0, 300, 1)
    [] id = 27 -> mb(r, 15527, 50009, -5, 5, 1)
    [] id = 28 -> mb(r, 14318, 51218, -1, 1, 1)
    [] id = 29 -> Num(0, (Min(56848, Max(12288, r)) - 12288) * 224, 100000)
    [] id \in {30, 42} -> Num(0, signed16(r), 10)
    [] id \in {32, 39} -> Num(0, r * 92, 1000000)
    [] id = 33 -> mb(r, 0, 65535, 0, 33, 10)
    [] id = 34 -> mb(r, 15163, 50373, -500, 500, 1)
    [] id \in {36, 37, 38} -> Num(0, r * 2442, 10000000)
    [] id = 40 -> mb(r, 0, 1400, 0, 14, 1)
    [] id = 41 -> mb(r, 0, 2000, 0, 20, 1)
    [] id = 47 -> Num(0, r, 100)
    [] id = 49 -> Num(0, (r - 32768) * 1084, 1000000)
    [] id = 50 -> Num(0, r, 57116)

\* a set with no sensor in it
NO_DATA_0x8000_None == {}

NO_DATA_0x8000 == {2, 4, 6, 14, 15, 16, 17, 21, 23, 25, 26, 30, 31, 40, 41, 42}

\* a _convertRaw that keeps whatever the conversion returned
convertRaw_Unchecked(sid, raw) ==
  LET isNoData == raw = 65535 \/ (raw = 32768 /\ sid \in NO_DATA_0x8000)
      converts == ~isNoData /\ sid \in DOMAIN SENSORS /\ SENSORS[sid].convert
      v == IF converts THEN SensorConvert(sid, raw) ELSE NaN
  IN [raw |-> raw, value |-> v, isNull |-> ~converts, noData |-> isNoData]

\* LabdiscParser._convertRaw(sid, raw, SENSORS[sid])
convertRaw(sid, raw) ==
  LET isNoData == raw = 65535 \/ (raw = 32768 /\ sid \in NO_DATA_0x8000)
      converts == ~isNoData /\ sid \in DOMAIN SENSORS /\ SENSORS[sid].convert
      v == IF converts THEN SensorConvert(sid, raw) ELSE NaN
  IN [raw |-> raw, value |-> v, isNull |-> ~v.finite, noData |-> isNoData]

\* the sensor ids a sensor-id packet may list and the parser hands to
\* _convertRaw: every id but 7, whose bytes are decoded as coordinates
MaxSensorId == 52
RawSids == (1..MaxSensorId) \ {7}
RawReadings == {0, 1000, 32767, 32768, 40000, 65535}

\* raw readings at and next to the entries of a table with rows of three
RawsAround(t) ==
  {r \in UNION {{t[k] - 1, t[k], t[k] + 1} : k \in {j \in 1..Len(t) : j % 3 = 1}} :
     r >= 0 /\ r <= 65535}
     \cup {0, 1, 32768, 65534, 65535}

SensorCalls ==
  {[fn |-> "convertExtTemp", raw |-> r] : r \in RawsAround(ExtTempTable)}
  \cup {[fn |-> "convertLight", raw |-> r] : r \in RawsAround(LightTable)}
  \cup {[fn |-> "decodeGPSCoord", b |-> b] : b \in GPSBytes}
  \cup {[fn |-> "convertRaw", sid |-> i, raw |-> r] : i \in RawSids, r \in RawReadings}

SensorsInit ==
  /\ SessionInit
  /\ stream = <<>> /\ fed = 0
  /\ arg \in SensorCalls /\ res = NoRes

\* the function is called and returns
Call ==
  /\ ~res.done
  /\ res' = Returned(CASE arg.fn = "convertExtTemp" -> convertExtTemp(arg.raw)
                       [] arg.fn = "convertLight" -> convertLight(arg.raw)
                       [] arg.fn = "decodeGPSCoord" ->
                            decodeGPSCoord(arg.b[1], arg.b[2], arg.b[3], arg.b[4])
                       [] arg.fn = "convertRaw" -> convertRaw(arg.sid, arg.raw))
  /\ UNCHANGED <<sessionVars, parserVars, arg>>

SpecSensors == SensorsInit /\ [][Call]_vars

\* the rows of the thermistor table: raw, temperature, slope in 10^-7
ExtTempRow(k) == [raw |-> ExtTempTable[3 * k - 2], temp |-> ExtTempTable[3 * k - 1],
                  slope |-> ExtTempTable[3 * k]]

\* C18: convertExtTemp returns -40 for every raw above 62587 and 120 for
\* every raw below 5376, and for every raw from 5376 to 62587 a finite value
\* computed from a table row
C18_ExtTempClamps ==
  (res.done /\ arg.fn = "convertExtTemp") =>
    IF arg.raw > 62587 THEN res.val = Num(-40, 0, 1)
    ELSE IF arg.raw < 5376 THEN res.val = Num(120, 0, 1)
    ELSE /\ res.val.finite
         /\ \E k \in 1..33 :
              /\ ExtTempRow(k).raw - arg.raw \in 0..4000
              /\ res.val = Num(ExtTempRow(k).temp,
                               (ExtTempRow(k).raw - arg.raw) * ExtTempRow(k).slope,
                               10000000)

\* the rows of the illuminance table: threshold, value, slope in 10^-5
LightRow(k) == [raw |-> LightTable[3 * k - 2], lux |-> LightTable[3 * k - 1],
                slope |-> LightTable[3 * k]]

\* the last row whose threshold is at most raw
LightRowOf(raw) ==
  CHOOSE k \in 1..10 :
    /\ LightRow(k).raw <= raw
    /\ \A j \in 1..10 : LightRow(j).raw <= raw => j <= k

\* C19: for every raw in 1..65534 convertLight returns the value of the last
\* row whose threshold is at most raw plus (raw - threshold) times that row's
\* slope; raw 0 and raw 65535 return 0
C19_LightRow ==
  (res.done /\ arg.fn = "convertLight") =>
    IF arg.raw = 0 \/ arg.raw = 65535 THEN res.val = Num(0, 0, 1)
    ELSE LET row == LightRow(LightRowOf(arg.raw))
             d == arg.raw - row.raw
         IN res.val = Num(row.lux, Slope5(d, row.slope).num, Slope5(d, row.slope).den)

\* C20: decodeGPSCoord takes the degrees from byte 0, the minutes times 1000
\* from bytes 1-2 and the hemisphere from byte 3; a coordinate that is not
\* zero has a negative decimal value exactly when the hemisphere byte is S
\* (0x53) or W (0x57), and the string ends in N, S, E or W for those bytes
\* and in ? for every other hemisphere byte
C20_GPSCoord ==
  (res.done /\ arg.fn = "decodeGPSCoord") =>
    LET deg == arg.b[1]
        min == arg.b[2] * 256 + arg.b[3]
        dir == arg.b[4]
        dec == res.val.decimal
        dms == res.val.dms
    IN /\ dec.den = 60000
       /\ dec.whole \in {deg, -deg} /\ dec.num \in {min, -min}
       /\ (deg > 0 \/ min > 0) => ((dec.whole < 0 \/ dec.num < 0) <=> dir \in {83, 87})
       /\ ~(dec.whole > 0 /\ dec.num < 0) /\ ~(dec.whole < 0 /\ dec.num > 0)
       /\ dms[Len(dms)] = (CASE dir = 78 -> "N" [] dir = 83 -> "S" [] dir = 69 -> "E"
                             [] dir = 87 -> "W" [] OTHER -> "?")

\* the sensor ids of the catalog
CatalogIds == {1, 2, 4, 5, 6, 7, 10, 11, 13, 15, 16, 17} \cup (20..34) \cup (36..42)
              \cup {47, 49, 50}

\* C17: for a sensor id in {2,4,6,14,15,16,17,21,23,25,26,30,31,40,41,42} a
\* raw reading of 0x8000 gives noData = true; for a catalog sensor id outside
\* that set it gives noData = false and a converted, finite value; a raw
\* reading of 0xFFFF gives noData = true for every sensor id
C17_NoDataLaw ==
  (res.done /\ arg.fn = "convertRaw") =>
    /\ arg.raw = 65535 => res.val.noData
    /\ arg.raw = 32768 =>
         IF arg.sid \in {2, 4, 6, 14, 15, 16, 17, 21, 23, 25, 26, 30, 31, 40, 41, 42}
         THEN res.val.noData
         ELSE arg.sid \in CatalogIds =>
                /\ ~res.val.noData
                /\ ~res.val.isNull /\ res.val.value.finite

\* the external temperature sensor read 0x8000 and the reading was
\* converted: 25 + (34422 - 32768) * 0.0017029
C17_MidpointConverted ==
  /\ res.done /\ arg.fn = "convertRaw" /\ arg.sid = 13 /\ arg.raw = 32768
  /\ res.val = [raw |-> 32768, value |-> Num(25, 28165966, 10000000),
                isNull |-> FALSE, noData |-> FALSE]

\* ---- more properties of the session ----

\* the start calls in flight
StartTasks(b) == {t \in BagToSet(b) : t.kind = "start"}

\* C21: a step in which startNormal / startFast rejects the call for want of
\* a sensor-id list sends no command and leaves the connection state, the
\* stream mode, the device status and the sensor-id list as they were
C21_NoSensorsNoOp ==
  [][ "noSensors" \in logs' =>
        /\ state' = state /\ streamMode' = streamMode
        /\ deviceStatus' = deviceStatus /\ sensorIds' = sensorIds
        /\ StartTasks(tasks') \subseteq StartTasks(tasks) ]_vars

\* the connect() calls the last action ended in their catch block
FailedConnects == {t \in fin : t.kind = "connect" /\ t.pc \in {"fail", "cancel"}}

\* C22: when requestPort() or open() fails in connect(), the session is
\* Disconnected afterwards, having left no state but Connecting in that step,
\* the port is null and no read loop runs;
\* an error line is logged unless the picker was cancelled
C22_ConnectFailure ==
  \A t \in FailedConnects :
    /\ trans \subseteq {<<CONNECTING, DISCONNECTED>>}
    /\ state = DISCONNECTED /\ port = 0
    /\ loops = 0 /\ ~reader
    /\ "connErr" \in logs <=> t.pc = "fail"

\* C23: in every state with a command write pending, the write failing logs
\* an error and leaves the connection state as it is; and when getWriter()
\* throws, _sendRaw logs an error and leaves the state as it is
C23_FailedWriteKeepsState ==
  /\ \A t \in BagToSet(tasks) :
       t.pc = "write" =>
         LET w == Written(Resume(Begin, t), t, CMD_STOP_LOGIN, "fail")
         IN w.st.state = state /\ "txErr" \in w.st.logs
  /\ (CanSend(Cur) /\ txBroken) =>
       LET w == Issue(Begin)
       IN ~w.pending /\ w.st.state = state /\ "txErr" \in w.st.logs

\* a write has failed in a connected session and was logged
C23_WriteFailed ==
  /\ "txErr" \in logs /\ txBroken /\ trans = {}
  /\ state = CONNECTED

\* C26: whenever the session is Disconnected the retained device status is
\* null, the cached sensor-id list and the parser buffer are empty and the
\* port handle is null
C26_DisconnectedIsClean ==
  state = DISCONNECTED =>
    /\ deviceStatus = 0
    /\ sensorIds = <<>>
    /\ buffer = <<>>
    /\ port = 0

\* ---- more properties of the parser ----

\* C27: a feed() runs its framing loop at most 50 times, and every iteration
\* after which the loop goes on has made the buffer at least one byte shorter
C27_FeedTerminates ==
  /\ Len(turns) <= SAFETY_CAP
  /\ \A k \in 1..Len(turns) : turns[k].more => turns[k].after < turns[k].before

\* a feed() of header pairs that start no packet was stopped by the iteration
\* cap with bytes left to frame
C27_CapReached ==
  /\ Len(turns) = SAFETY_CAP /\ turns[SAFETY_CAP].more
  /\ Len(buffer) >= MIN_FRAME
  /\ discarded > 0

\* ---- LabdiscParser: what the data handlers read and emit ----
\* undefined, the value of an array read past the end
Undefined == -1

\* pkt[i] of a JavaScript array, i counted from 0
Byte(pkt, i) == IF i >= 0 /\ i < Len(pkt) THEN pkt[i + 1] ELSE Undefined

\* (hi << 8) | lo: an undefined operand counts as 0
Word(hi, lo) ==
  (IF hi = Undefined THEN 0 ELSE hi) * 256 + (IF lo = Undefined THEN 0 ELSE lo)

\* values[sid] = rec
Put(values, sid, rec) ==
  [s \in DOMAIN values \cup {sid} |-> IF s = sid THEN rec ELSE values[s]]

\* the coordinate decoded from the four bytes at offset
Coord(pkt, offset) ==
  decodeGPSCoord(Byte(pkt, offset), Byte(pkt, offset + 1),
                 Byte(pkt, offset + 2), Byte(pkt, offset + 3))

\* the loop of _parseOnlineData from list position i on; A holds the values
\* built, the payload offset and, as history, the indices read so far
RECURSIVE OnlineLoop(_, _, _, _)
OnlineLoop(ids, pkt, i, A) ==
  IF i > Len(ids) THEN A
  ELSE
    LET sid == ids[i]
        offset == A.offset
    IN IF sid = 7
       THEN IF offset + 8 > Len(pkt) - 1 THEN A
            ELSE OnlineLoop(ids, pkt, i + 1,
                   [values |-> Put(A.values, 7,
                                   [raw |-> 0, value |-> Num(0, 0, 1), isNull |-> FALSE,
                                    noData |-> FALSE, lat |-> Coord(pkt, offset),
                                    lon |-> Coord(pkt, offset + 4)]),
                    offset |-> offset + 8,
                    reads |-> A.reads \cup (offset..(offset + 7))])
       ELSE IF offset + 2 > Len(pkt) - 1 THEN A
            ELSE OnlineLoop(ids, pkt, i + 1,
                   [values |-> Put(A.values, sid,
                                   convertRaw(sid, Word(Byte(pkt, offset),
                                                        Byte(pkt, offset + 1)))),
                    offset |-> offset + 2,
                    reads |-> A.reads \cup {offset, offset + 1}])

\* what _parseOnlineData hands to _emitData for a packet and a sensor-id list
parseOnlineData(ids, pkt) ==
  LET A == OnlineLoop(ids, pkt, 1, [values |-> <<>>, offset |-> 4, reads |-> {}])
  IN [values |-> A.values, counter |-> Undefined, reads |-> A.reads]

\* (mask >> bitIdx) & 1
IsActive(mask, bitIdx) == (mask \div (2 ^ bitIdx)) % 2 = 1

\* the loop of _parseExperimentData from bit bitIdx on
RECURSIVE ExperimentLoop(_, _, _, _, _)
ExperimentLoop(ids, pkt, mask, bitIdx, A) ==
  IF bitIdx >= Len(ids) THEN A
  ELSE
    LET sid == ids[bitIdx + 1]
        offset == A.offset
    IN IF ~IsActive(mask, bitIdx)
       THEN ExperimentLoop(ids, pkt, mask, bitIdx + 1,
              [A EXCEPT !.values = Put(@, sid, [raw |-> 65535, value |-> NaN,
                                                isNull |-> TRUE, noData |-> TRUE])])
       ELSE IF sid = 7
       THEN IF offset + 12 > Len(pkt) - 1 THEN A
            ELSE ExperimentLoop(ids, pkt, mask, bitIdx + 1,
                   [values |-> Put(A.values, 7,
                                   [raw |-> 0, value |-> Num(0, 0, 1), isNull |-> FALSE,
                                    noData |-> FALSE, lat |-> Coord(pkt, offset),
                                    lon |-> Coord(pkt, offset + 4),
                                    vel |-> Num(0, Word(Byte(pkt, offset + 8),
                                                        Byte(pkt, offset + 9)), 10),
                                    ang |-> Num(0, Word(Byte(pkt, offset + 10),
                                                        Byte(pkt, offset + 11)), 10)]),
                    offset |-> offset + 12,
                    reads |-> A.reads \cup (offset..(offset + 11))])
       ELSE IF offset + 2 > Len(pkt) - 1 THEN A
            ELSE ExperimentLoop(ids, pkt, mask, bitIdx + 1,
                   [values |-> Put(A.values, sid,
                                   convertRaw(sid, Word(Byte(pkt, offset),
                                                        Byte(pkt, offset + 1)))),
                    offset |-> offset + 2,
                    reads |-> A.reads \cup {offset, offset + 1}])

\* what _parseExperimentData hands to _emitData
parseExperimentData(ids, pkt) ==
  LET mask == Word(Byte(pkt, 4), Byte(pkt, 5))
      A == ExperimentLoop(ids, pkt, mask, 0,
                          [values |-> <<>>, offset |-> 8, reads |-> {4, 5, 7}])
  IN [values |-> A.values, counter |-> Byte(pkt, 7), reads |-> A.reads]

\* the sample a "data" event of the parser carries: the handler's result for
\* the packet and the sensor-id list the event was emitted with
Sample(e) ==
  IF e.pkt[3] = RSP_ONLINE_DATA THEN parseOnlineData(e.ids, e.pkt)
  ELSE parseExperimentData(e.ids, e.pkt)

\* reset()
Reset ==
  /\ buffer' = <<>> /\ sensorIds' = <<>> /\ packetCount' = 0
  /\ UNCHANGED <<state, port, reader, loops, txBroken, streamMode, deviceStatus,
                 mbState, mbPending, mode, autoStarted, tasks, ops, logs, trans,
                 fin, mixed, manual, displayValues, lastUartLine, uartSentCount,
                 txLines, sample, gatt, wire, lines, stream, fed, events, warns, discarded, turns,
                 arg, res>>

\* ---- sensor-id and data packets the Logger may deliver ----
\* a sensor-id packet with the given payload bytes, zero-padded
SensorIdsPkt(bytes) ==
  WithChecksum(<<HDR_0, HDR_1, RSP_SENSOR_IDS>> \o bytes
               \o Rep(<<0>>, LEN_SENSOR_IDS - 4 - Len(bytes)))

\* a data packet: header, type, declared length, the bytes after it, checksum
DataPkt(type, rest) == WithChecksum(<<HDR_0, HDR_1, type, Len(rest) + 5>> \o rest)

IdPayloads == {<<30, 7, 13>>, <<13, 0, 2, 0, 20>>, <<99, 2>>, <<>>}

\* the packets that follow: data packets, a status packet and a packet with
\* a bad checksum; 62587 = 0xF47B is the first raw value of the thermistor table
LaterPkts ==
  { DataPkt(RSP_ONLINE_DATA, <<1, 7, 34, 0, 7, 78, 90, 1, 255, 87, 244, 123>>),
    DataPkt(RSP_ONLINE_DATA, <<244, 123, 128, 0, 255, 255>>),
    DataPkt(RSP_ONLINE_DATA, <<1, 7>>),
    DataPkt(RSP_ONLINE_DATA, <<>>),
    DataPkt(RSP_EXPERIMENT_DATA, <<0, 5, 0, 9, 1, 7, 244, 123>>),
    DataPkt(RSP_EXPERIMENT_DATA, <<0, 3, 0, 4, 1, 7,
                                   34, 0, 7, 78, 90, 1, 255, 87, 0, 15, 0, 200>>),
    DataPkt(RSP_EXPERIMENT_DATA, <<0, 6, 0, 2, 128, 0>>),
    DataPkt(RSP_EXPERIMENT_DATA, <<0, 1, 0, 3>>),
    DataPkt(RSP_EXPERIMENT_DATA, <<0>>),
    StatusPkt, BadPkt }

SampleStreams ==
  {SensorIdsPkt(p) \o d1 \o d2 : p \in IdPayloads, d1 \in LaterPkts, d2 \in LaterPkts}

SamplesInit ==
  /\ SessionInit
  /\ stream \in SampleStreams /\ fed = 0
  /\ arg = NoCall /\ res = NoRes

SampleChunks == {8, 21}

FeedSample ==
  \E n \in SampleChunks \cup {Len(stream) - fed} :
    /\ n >= 1 /\ fed + n <= Len(stream)
    /\ LET P == Feed(CurParser, SubSeq(stream, fed + 1, fed + n))
       IN /\ buffer' = P.buffer /\ sensorIds' = P.sensorIds
          /\ packetCount' = P.packetCount /\ events' = P.events
          /\ warns' = P.warns /\ discarded' = P.discarded /\ turns' = P.turns
    /\ fed' = fed + n
    /\ UNCHANGED <<state, port, reader, loops, txBroken, streamMode, deviceStatus,
                   mbState, mbPending, mode, autoStarted, tasks, ops, logs, trans,
                   fin, mixed, manual, displayValues, lastUartLine, uartSentCount,
                   txLines, sample, gatt, wire, lines, stream, arg, res>>

\* reset() while there are bytes left to deliver
ResetParser == fed < Len(stream) /\ Reset

SamplesNext == FeedSample \/ ResetParser

SpecSamples == SamplesInit /\ [][SamplesNext]_vars

\* the "data" events emitted so far
DataEvents == {k \in 1..Len(events) : events[k].type = "data"}

\* C24: in every sample a data handler emitted, a reading flagged noData has
\* a null value, and a value that is not null is a finite number
C24_NullWhenNoData ==
  \A k \in DataEvents :
    LET v == Sample(events[k]).values
    IN \A sid \in DOMAIN v :
         /\ v[sid].noData => v[sid].isNull
         /\ ~v[sid].isNull => v[sid].value.finite

\* a sample with a reading flagged noData, and with the thermistor reading
\* whose conversion is not a number surfaced as null
C24_NaNSurfacedAsNull ==
  \E k \in DataEvents :
    LET v == Sample(events[k]).values
    IN /\ {13, 2} \subseteq DOMAIN v
       /\ v[2].noData /\ v[2].isNull
       /\ v[13].raw = 62587 /\ ~v[13].noData /\ v[13].isNull
       /\ ~convertExtTemp(62587).finite

\* the events a step adds
NewEvents == (Len(events) + 1)..Len(events')

\* the sensor ids in a list
IdsOf(ids) == {ids[i] : i \in 1..Len(ids)}

\* C25: every sample a feed() emits has a reading record for every cached
\* sensor id, and the packet counter goes up by one for each sample emitted
C25_RecordForEveryId ==
  [][ events' # events =>
        /\ \A k \in NewEvents :
             events'[k].type = "data" =>
               IdsOf(events'[k].ids) \subseteq DOMAIN Sample(events'[k]).values
        /\ packetCount' =
             packetCount + Cardinality({k \in NewEvents : events'[k].type = "data"}) ]_vars

\* C28: no data handler reads a packet byte at or past the packet's length
C28_ReadsInsidePacket ==
  \A k \in DataEvents :
    \A i \in Sample(events[k]).reads : i < Len(events[k].pkt)

\* the payload bytes an active sensor takes in an experiment-data packet
ActiveSize(sid) == IF sid = 7 THEN 12 ELSE 2

\* where the payload of the sensor at list position i (from 1) starts: 8 plus
\* the sizes of the active sensors before it
RECURSIVE OffsetAt(_, _, _)
OffsetAt(ids, m, i) ==
  IF i = 1 THEN 8
  ELSE OffsetAt(ids, m, i - 1)
       + (IF (m \div (2 ^ (i - 2))) % 2 = 1 THEN ActiveSize(ids[i - 1]) ELSE 0)

\* C29: in the sample of an experiment-data packet with bitmask m, a sensor
\* whose bit is clear has the record {0xFFFF, null, noData}, and a sensor
\* whose bit is set and that has a record was read at offset 8 plus the sizes
\* of the active sensors before it; no other payload byte is read
C29_MaskedPayload ==
  \A k \in DataEvents :
    LET e == events[k]
        ids == e.ids
        m == e.pkt[5] * 256 + e.pkt[6]
        s == Sample(e)
        set(i) == (m \div (2 ^ (i - 1))) % 2 = 1
        at(i) == OffsetAt(ids, m, i)
        read(i) == set(i) /\ at(i) + ActiveSize(ids[i]) <= Len(e.pkt) - 1
    IN (e.pkt[3] = RSP_EXPERIMENT_DATA /\ Len(e.pkt) >= 9) =>
         /\ \A i \in 1..Len(ids) :
              /\ ~set(i) =>
                   /\ ids[i] \in DOMAIN s.values
                   /\ s.values[ids[i]].raw = 65535
                   /\ s.values[ids[i]].isNull /\ s.values[ids[i]].noData
              /\ (set(i) /\ ids[i] # 7 /\ ids[i] \in DOMAIN s.values) =>
                   s.values[ids[i]].raw = e.pkt[at(i) + 1] * 256 + e.pkt[at(i) + 2]
         /\ s.reads \subseteq
              {4, 5, 7} \cup UNION {at(i)..(at(i) + ActiveSize(ids[i]) - 1) :
                                      i \in {j \in 1..Len(ids) : read(j)}}

\* the non-zero bytes of s, in order
RECURSIVE NonZero(_)
NonZero(s) ==
  IF Len(s) = 0 THEN <<>>
  ELSE IF s[1] = 0 THEN NonZero(Tail(s))
  ELSE <<s[1]>> \o NonZero(Tail(s))

\* C30: a step that dispatches sensor-id packets leaves the cached list equal
\* to the non-zero payload bytes, in order, of the last of them, each being a
\* checksum-valid 0x82 packet; any other step leaves the list as it was, unless
\* it is reset(), which empties it
C30_SensorIdCache ==
  [][ LET new == {k \in NewEvents : events'[k].type = "ids"}
          last == CHOOSE k \in new : \A j \in new : j <= k
          pkt == events'[last].pkt
      IN IF new # {}
         THEN /\ sensorIds' = NonZero(SubSeq(pkt, 4, Len(pkt) - 1))
              /\ \A k \in new : /\ verifyChecksum(events'[k].pkt)
                                /\ events'[k].pkt[3] = RSP_SENSOR_IDS
         ELSE \/ sensorIds' = sensorIds
              \/ /\ sensorIds' = <<>> /\ buffer' = <<>> /\ packetCount' = 0
                 /\ fed' = fed ]_vars

\* the list cached from a payload with zero bytes in it has outlived a packet
\* with a bad checksum and a data packet
C30_CacheKept ==
  /\ sensorIds = <<13, 2, 20>>
  /\ warns > 0 /\ discarded > 0 /\ packetCount > 0
  /\ fed = Len(stream)

\* ---- startNormal / startFast: the configure command ----
\* the StartExperiment packet of a start in mode m with mask
ConfigurePkt(m, mask) ==
  buildStartExperiment((mask \div 256) % 256, mask % 256,
                       IF m = "normal" THEN 2 ELSE 3, 3)

\* the first n ids of a list that repeats base
IdsFrom(base, n) == [i \in 1..n |-> base[((i - 1) % Len(base)) + 1]]

IdBases == {<<30, 6, 20, 26, 2>>, <<7, 30, 13>>, <<25, 21>>}

ConfigCalls ==
  {[fn |-> "configure", mode |-> m, ids |-> IdsFrom(b, n)] :
     m \in Modes, b \in IdBases, n \in 1..(LEN_SENSOR_IDS - 4)}

ConfigInit ==
  /\ SessionInit
  /\ stream = <<>> /\ fed = 0
  /\ arg \in ConfigCalls /\ res = NoRes

\* the start procedure builds its configure command from the cached list
Configure ==
  /\ ~res.done
  /\ res' = Returned(ConfigurePkt(arg.mode, MaskOf(arg.mode, arg.ids)))
  /\ UNCHANGED <<sessionVars, parserVars, arg>>

SpecConfig == ConfigInit /\ [][Configure]_vars

\* C31: the configure command of Normal mode has bit i of its 16-bit mask
\* set for every position i of the list and rate index 2; the configure
\* command of either mode has sample-count index 3
C31_NormalMask ==
  res.done =>
    LET pkt == res.val
        mask == pkt[4] * 256 + pkt[5]
    IN /\ pkt[7] = 3
       /\ arg.mode = "normal" =>
            /\ pkt[6] = 2
            /\ \A i \in 0..(Len(arg.ids) - 1) : (mask \div (2 ^ i)) % 2 = 1

\* ---- the Beacon link: samples and the writes of their lines ----
\* the session's actions within the smaller budget, the data packets, and the
\* writes to the Beacon
BleNext ==
  \/ FairNext
  \/ RecvData
  \/ BleWriteStep

SpecBle == Init /\ [][BleNext]_vars

\* the chunks written to the Beacon, in the order they were written
WrittenChunks == SelectSeq(wire, LAMBDA w : w.res = "ok")

\* the bytes of the chunks of ws, in order
RECURSIVE Bytes(_)
Bytes(ws) == IF Len(ws) = 0 THEN <<>> ELSE ws[1].bytes \o Bytes(Tail(ws))

\* C32: every chunk written to the Beacon has at most 20 bytes; the chunks
\* are written line after line in emission order, never a chunk of an earlier
\* line after one of a later line; and a line whose send() has ended without
\* a fault of the link is on the wire in full
C32_LinesInOrder ==
  LET W == WrittenChunks
  IN /\ \A k \in 1..Len(W) : Len(W[k].bytes) <= chunkSize
     /\ \A j, k \in 1..Len(W) : j < k => W[j].n <= W[k].n
     /\ \A n \in 1..Len(lines) :
          (/\ \A k \in 1..Len(gatt) : gatt[k].n # n
           /\ \A k \in 1..Len(wire) : wire[k].n = n => wire[k].res # "link")
          => Bytes(SelectSeq(W, LAMBDA w : w.n = n)) = lines[n]

\* C33: at most one read loop of the session is suspended in reader.read()
C33_OneReadLoop == loops <= 1

\* ---- the session left to itself: no stream button, no mode change ----
AutoNext ==
  \/ ConnectLabdisc /\ ops' <= MaxFairOps
  \/ ConnectStep /\ ops' <= MaxFairOps
  \/ DisconnectLabdisc /\ ops' <= MaxFairOps
  \/ DisconnectStep /\ ops' <= MaxFairOps
  \/ StartStep /\ ops' <= MaxFairOps
  \/ StopStep /\ ops' <= MaxFairOps
  \/ RestartStep /\ ops' <= MaxFairOps
  \/ RecvSensorIds /\ ops' <= MaxFairOps
  \/ RecvStatus /\ ops' <= MaxFairOps
  \/ ReadError /\ ops' <= MaxFairOps
  \/ ConnectMicrobit /\ ops' <= MaxFairOps
  \/ MbConnectDone /\ ops' <= MaxFairOps
  \/ MbDisconnected /\ ops' <= MaxFairOps

\* every suspended call is resumed in the end
SpecAuto ==
  /\ Init /\ [][AutoNext]_vars
  /\ WF_vars(ConnectStep /\ ops' <= MaxFairOps)
  /\ WF_vars(DisconnectStep /\ ops' <= MaxFairOps)
  /\ WF_vars(StartStep /\ ops' <= MaxFairOps)
  /\ WF_vars(StopStep /\ ops' <= MaxFairOps)
  /\ WF_vars(RestartStep /\ ops' <= MaxFairOps)
  /\ WF_vars(MbConnectDone /\ ops' <= MaxFairOps)

\* the Logger is connected, the Beacon is Connected and sensor ids are cached
BothReady ==
  /\ state \in {CONNECTED, STREAMING}
  /\ mbState = CONNECTED
  /\ Len(sensorIds) > 0

\* C34: if from some moment on the Logger is connected, the Beacon is
\* Connected and the sensor-id list is non-empty, the session reaches Streaming
C34_AutoStartInTheEnd == <>[]BothReady => <>(state = STREAMING)

\* C35: the step that completes a manualStopStream leaves the session
\* Connected and starts no stream: no automatic start is logged and no start
\* call is made
C35_ManualStopStays ==
  [][ {t \in fin' : t.kind = "stop" /\ t.origin = "manual"} # {} =>
        /\ state' = CONNECTED
        /\ "autoStart" \notin logs'
        /\ StartTasks(tasks') \subseteq StartTasks(tasks) ]_vars

\* the calls in flight whose last written command is StopLogin: its
\* acknowledgement is the next status packet with subtype 0x33
StopLoginSent ==
  {t \in BagToSet(tasks) :
     Len(t.sent) > 0 /\ t.sent[Len(t.sent)] = CMD_STOP_LOGIN}

RestartTasks(b) == {t \in BagToSet(b) : t.kind = "restart"}

\* C36: while a call of the host has written StopLogin and not gone on yet,
\* the arrival of a status packet starts no auto-restart
C36_OwnStopNoRestart ==
  [][ StopLoginSent # {} =>
        RestartTasks(tasks') \subseteq RestartTasks(tasks) ]_vars

\* ---- the handshake's GetSensorIDs answered with another list ----
\* lists the Logger may report when its sensors changed since connect()
OtherIdLists == {<<30, 2, 7>>}

RecvOtherIds ==
  \E ids \in OtherIdLists :
    /\ loops > 0
    /\ Commit([BeginOp EXCEPT !.sensorIds = ids])

MaskNext == Next \/ RecvOtherIds

SpecMask == Init /\ [][MaskNext]_vars

\* the start call t, after the sleep that follows GetStatus, hands its
\* StartExperiment packet to the writer in this step
ConfigureIssued(t) ==
  LET u == [t EXCEPT !.pc = "write", !.k = 4] IN
  /\ t.kind = "start" /\ t.k = 3 /\ t.pc = "sleep"
  /\ CopiesIn(t, tasks') < CopiesIn(t, tasks)
  /\ CopiesIn(u, tasks') > CopiesIn(u, tasks)

\* C37: the mask of a StartExperiment handed to the writer is the mask of the
\* sensor-id list cached at that moment
C37_MaskOfCurrentIds ==
  [][ \A t \in BagToSet(tasks) :
        ConfigureIssued(t) => t.mask = MaskOf(t.mode, sensorIds) ]_vars

\* ---- calcChecksum / verifyChecksum on byte sequences ----
MaxBytes == 3
ByteValues == {0, 1, 20, 71, 128, 185, 255}

RECURSIVE SeqsUpTo(_, _)
SeqsUpTo(V, n) ==
  IF n = 0 THEN {<<>>}
  ELSE LET R == SeqsUpTo(V, n - 1)
       IN R \cup {Append(s, v) : s \in {r \in R : Len(r) = n - 1}, v \in V}

ChecksumCalls ==
  {[fn |-> "calcChecksum", bytes |-> b] : b \in SeqsUpTo(ByteValues, MaxBytes)}

ChecksumInit ==
  /\ SessionInit
  /\ stream = <<>> /\ fed = 0
  /\ arg \in ChecksumCalls /\ res = NoRes

\* bytes.push(calcChecksum(bytes)): the sequence with its checksum appended
Checksum ==
  /\ ~res.done
  /\ res' = Returned(Append(arg.bytes, calcChecksum(arg.bytes)))
  /\ UNCHANGED <<sessionVars, parserVars, arg>>

SpecChecksum == ChecksumInit /\ [][Checksum]_vars

\* C38: a sequence with its checksum appended is accepted, with any other
\* byte appended it is rejected, and an accepted packet with one byte changed
\* to another value is rejected
C38_ChecksumDetects ==
  res.done =>
    /\ res.val[Len(res.val)] \in 0..255
    /\ verifyChecksum(res.val)
    /\ \A c \in 0..255 :
         c # res.val[Len(res.val)] => ~verifyChecksum(Append(arg.bytes, c))
    /\ \A i \in 1..Len(res.val), v \in 0..255 :
         v # res.val[i] => ~verifyChecksum([res.val EXCEPT ![i] = v])

\* a sequence whose sum passes 256 once and is a multiple of 256
C38_SumWraps ==
  /\ res.done
  /\ Len(arg.bytes) = MaxBytes
  /\ Sum(arg.bytes) = 256
  /\ res.val[Len(res.val)] = 0

\* ---- a raw reading on its way to a field of the wire line ----
RECURSIVE Gcd(_, _)
Gcd(a, b) == IF b = 0 THEN a ELSE Gcd(b, a % b)

\* Math.round(value * factor) of a finite number whole + num / den
RoundTimes(v, factor) ==
  LET g == Gcd(factor, v.den)
  IN v.whole * factor + MathRound(v.num * (factor \div g), v.den \div g)

\* the part formatForUART pushes for entry, data being values[entry.id] as
\* _convertRaw returned it
UartPart(entry, data) ==
  IF data.noData \/ data.isNull THEN NO_DATA_VALUE
  ELSE RoundTimes(data.value, entry.factor)

\* raw readings: the no-data sentinels, the ends of the range, and the
\* readings around the signed 16-bit value -9999
WireRaws == {0, 1000, 32767, 32768, 40000, 55536, 55537, 55538, 65534, 65535}

WireCalls ==
  {[fn |-> "wire", pos |-> k, raw |-> r] : k \in 1..Len(UART_ORDER), r \in WireRaws}

WireInit ==
  /\ SessionInit
  /\ stream = <<>> /\ fed = 0
  /\ arg \in WireCalls /\ res = NoRes

\* the reading is converted by the parser and formatted at its position
Wire ==
  /\ ~res.done
  /\ LET entry == UART_ORDER[arg.pos]
         data == convertRaw(entry.id, arg.raw)
     IN res' = Returned([data |-> data, part |-> UartPart(entry, data)])
  /\ UNCHANGED <<sessionVars, parserVars, arg>>

SpecWire == WireInit /\ [][Wire]_vars

\* C39: a reading that is not a no-data sentinel and converts to a finite
\* value gives a field different from -9999
C39_SentinelOnlyForNoData ==
  (res.done /\ ~res.val.data.noData /\ ~res.val.data.isNull) =>
    res.val.part # NO_DATA_VALUE
====
